---------------------------- MODULE Spec2Model ----------------------------
(***************************************************************************)
(* The staleness-gated, lock-coordinated external-resource cache of        *)
(* github-chat: the refresh functions of src/services/github/cache.ts and  *)
(* src/services/chroma/cache.ts over the tables of src/db/schema.ts, and   *)
(* the status handler that drives them.                                    *)
(*                                                                         *)
(* Every database statement is one atomic step (PostgreSQL READ COMMITTED, *)
(* each statement sees the last committed rows).  A transaction that won   *)
(* the SELECT ... FOR UPDATE SKIP LOCKED holds the row lock from its claim *)
(* to its commit or rollback; its writes become visible at the commit, so  *)
(* the external call, the write-back and the commit are the one step that  *)
(* ends the call's "fetch" phase.  Time is a logical clock; Date.now(),    *)
(* new Date() and the database's now() all read it.                        *)
(***************************************************************************)
EXTENDS Integers, FiniteSets, Sequences, TLC

\* ------------------------------------------------------------------ bounds

\* Number of concurrent callers.
NumProcs == 2
\* The logical clock runs from 0 to MaxClock.
MaxClock == 1

\* The periods of the program, in clock ticks: they keep their order.
STATUS_UPDATE_THRESHOLD_MS == 0
ONE_DAY_MS == 1
ONE_MONTH_MS == 2

Procs == 1..NumProcs

\* Commit SHAs the source-control API may report as branch head.  The tree of
\* a commit is keyed by the commit's own name (treeSha is a function of sha).
Shas == {"abc123", "def456"}

Null == "null"

\* A TTL longer than any run of the model, and the two TTLs a caller may pass.
LongTTL == MaxClock + 1
TTLs == {0, LongTTL}

\* ------------------------------------------------------------------- state

VARIABLES
    clock,                  \* Date.now()
    githubRepo,             \* the one github_repo row: exists, available, fetchedAt
    githubRepoDetails,      \* whether the github_repo_details row exists
    githubRepoState,        \* the github_repo_state row
    githubRepoCommit,       \* the SHAs that have a github_repo_commit row
    githubRepoTrees,        \* treeSha -> github_repo_trees row
    chromaSyncSources,      \* the chroma_sync_sources row of the repository
    chromaSyncInvocations,  \* ref -> chroma_sync_invocations row
    lock,                   \* row -> the caller whose transaction holds its row lock, or 0
    remoteStatus,           \* ref -> the status the indexing service holds for its invocation
    nextUuid,               \* the next identifier the indexing service hands out
    procs,                  \* caller -> its call: position, function, arguments, result
    stage,                  \* history: the store the run started from
    tasks                   \* the calls started without being awaited, not yet begun

dbVars == <<githubRepo, githubRepoDetails, githubRepoState, githubRepoCommit,
            githubRepoTrees, chromaSyncSources, chromaSyncInvocations>>
vars == <<clock, dbVars, lock, remoteStatus, nextUuid, procs, stage, tasks>>

\* ------------------------------------------------------------------- rows

RepoRow == <<"repo", Null>>
StateRow == <<"state", Null>>
SourceRow == <<"source", Null>>
TreeRow(sha) == <<"tree", sha>>
InvRow(sha) == <<"inv", sha>>

Rows == {RepoRow, StateRow, SourceRow} \cup ({"tree", "inv"} \X Shas)

NoRepo == [exists |-> FALSE, available |-> Null, fetchedAt |-> 0]
NoState == [exists |-> FALSE, latestCommitSha |-> Null,
            latestProcessedCommitSha |-> Null, fetchedAt |-> 0]
NoTree == [exists |-> FALSE, tree |-> Null, fetchedAt |-> 0]
NoSource == [exists |-> FALSE, uuid |-> 0]
NoInvocation == [exists |-> FALSE, sourceUuid |-> 0, targetCollectionName |-> 0,
                 uuid |-> 0, status |-> Null, fetchedAt |-> 0]

isTerminalStatus(status) ==
    status = "completed" \/ status = "failed" \/ status = "cancelled"

\* What the refresh functions return: null, or the row (the fetched object).
NoValue == [type |-> "null"]
RepoValue == [type |-> "repo"]
CommitValue(sha) == [type |-> "commit", sha |-> sha]
TreeValue(row) == [type |-> "tree", tree |-> row.tree, fetchedAt |-> row.fetchedAt]
SourceValue(row) == [type |-> "source", uuid |-> row.uuid]
InvocationValue(sha, row) ==
    [type |-> "invocation", refIdentifier |-> sha, uuid |-> row.uuid,
     status |-> row.status, fetchedAt |-> row.fetchedAt,
     targetCollectionName |-> row.targetCollectionName]

\* ---------------------------------------------------------------- callers

\* A caller's call.  pc: idle, check, insert, claim, fetch (the transaction
\* holds the row lock and the external call is in flight), current (the
\* transaction returned null and the stored row is read), done, threw.
\* outcome: how its external call ended (none, ok, absent, throw).
\* A caller that serves a status request keeps, besides: req (the refresh call
\* the handler awaits: repo, status, or none), state (the handler's snapshot)
\* and resp (its response).  bg marks a call that nobody awaits.
NoCurrentState ==
    [repo |-> NoRepo, repoDetails |-> FALSE, state |-> NoState,
     latestCommit |-> Null, latestProcessedCommit |-> Null, tree |-> NoTree,
     source |-> NoSource, invocation |-> NoInvocation, invocationRef |-> Null]
NoResponse == [code |-> 0]

Idle == [pc |-> "idle", op |-> Null, key |-> Null, ttl |-> 0, force |-> FALSE,
         snap |-> NoInvocation, outcome |-> "none", ret |-> NoValue,
         req |-> "none", state |-> NoCurrentState, resp |-> NoResponse, bg |-> FALSE]

At(p, where, o) == procs[p].pc = where /\ procs[p].op = o

Goto(p, to) == procs' = [procs EXCEPT ![p].pc = to]

\* The external call ended with `how` and the transaction returned null.
Lost(p, how) ==
    procs' = [procs EXCEPT ![p] =
                 [@ EXCEPT !.pc = "current", !.outcome = how, !.snap = NoInvocation]]

\* The call returns; the result of a call nobody awaits is dropped.
Return(p, how, value) ==
    procs' = [procs EXCEPT ![p] =
                 IF @.bg THEN Idle
                 ELSE [@ EXCEPT !.pc = "done", !.outcome = how, !.ret = value,
                                !.snap = NoInvocation]]

Throw(p, how) ==
    procs' = [procs EXCEPT ![p] =
                 IF @.bg THEN Idle
                 ELSE [@ EXCEPT !.pc = "threw", !.outcome = how, !.snap = NoInvocation]]

\* ---------------------------------------------------------------- helpers

\* lt(fetchedAt, new Date(Date.now() - TTL))
isExpiredLe(fetchedAt, TTL) == fetchedAt <= clock - TTL
isExpired(fetchedAt, TTL) == fetchedAt < clock - TTL

\* .for("update", { skipLocked: true }): the rows matching the where clause
\* that no other transaction has locked; the transaction locks what it gets.
SkipLockedIgnoresLock(row, where) == where
SkipLocked(row, where) == where /\ lock[row] = 0

\* .for("update") without skipLocked, in a statement of its own: the
\* statement waits while another transaction holds the row lock.
ForUpdateNoWait(row) == FALSE
ForUpdateWaits(row) == lock[row] # 0

\* A plain select never waits.
PlainSelectWaits(row) == FALSE

\* The claim step shared by the six functions: the transaction opens and runs
\* its SELECT ... FOR UPDATE SKIP LOCKED; with a row it goes on to the external
\* call holding the lock, without one the transaction returns null.
\* As Claim, with a forced call taking a row that another caller has locked.
ClaimForcedTakesLocked(p, row, where) ==
    IF SkipLocked(row, where) \/ (procs[p].force /\ where)
    THEN /\ lock' = [lock EXCEPT ![row] = p]
         /\ Goto(p, "fetch")
    ELSE /\ UNCHANGED lock
         /\ Lost(p, "none")

Claim(p, row, where) ==
    IF SkipLocked(row, where)
    THEN /\ lock' = [lock EXCEPT ![row] = p]
         /\ Goto(p, "fetch")
    ELSE /\ UNCHANGED lock
         /\ Lost(p, "none")

\* Commit or rollback releases the transaction's row lock.
ReleaseNever(row) == UNCHANGED lock
Release(row) == lock' = [lock EXCEPT ![row] = 0]

\* new Date() in the write-back.
NowMinusDay == clock - ONE_DAY_MS
Now == clock

\* ------------------------------------------- external source-control API

\* getRepository: the repository, an error object (404, 403), or a throw.
GetRepositoryResults == {"repo", "error", "throw"}
\* getBranchCommit: the head commit, null (404), or a throw.
GetBranchCommitResults == Shas \cup {Null, "throw"}
\* getRepositoryTree: the tree, null (404, 403), or a throw.
GetRepositoryTreeResults == {"entries", Null, "throw"}

\* ------------------------------------------------------------ refreshRepo

RefreshRepoInsert(p) ==
    /\ At(p, "insert", "refreshRepo")
    /\ githubRepo' = IF githubRepo.exists THEN githubRepo
                     ELSE [exists |-> TRUE, available |-> Null, fetchedAt |-> clock]
    /\ Goto(p, "claim")
    /\ UNCHANGED <<clock, githubRepoDetails, githubRepoState, githubRepoCommit,
                   githubRepoTrees, chromaSyncSources, chromaSyncInvocations,
                   lock, remoteStatus, nextUuid, stage, tasks>>

refreshRepoWhereAlways(TTL, forced) == githubRepo.exists
refreshRepoWhereRetriesUnavailable(TTL, forced) ==
    /\ githubRepo.exists
    /\ IF forced THEN TRUE
       ELSE githubRepo.available # "true" \/ isExpired(githubRepo.fetchedAt, TTL)

refreshRepoWhere(TTL, forced) ==
    /\ githubRepo.exists
    /\ IF forced THEN TRUE
       ELSE githubRepo.available = Null \/ isExpired(githubRepo.fetchedAt, TTL)

RefreshRepoClaim(p) ==
    /\ At(p, "claim", "refreshRepo")
    /\ Claim(p, RepoRow, refreshRepoWhere(procs[p].ttl, procs[p].force))
    /\ UNCHANGED <<clock, dbVars, remoteStatus, nextUuid, stage, tasks>>

\* As RefreshRepoFetch, with a throw recorded like an error object.
RefreshRepoFetchSwallows(p, fetched) ==
    /\ At(p, "fetch", "refreshRepo")
    /\ Release(RepoRow)
    /\ IF fetched = "repo"
       THEN /\ githubRepo' = [githubRepo EXCEPT !.available = "true", !.fetchedAt = Now]
            /\ githubRepoDetails' = TRUE
            /\ Return(p, "ok", RepoValue)
       ELSE /\ githubRepo' = [githubRepo EXCEPT !.available = "false", !.fetchedAt = Now]
            /\ IF fetched = "error" THEN Lost(p, "absent") ELSE Throw(p, "throw")
            /\ UNCHANGED githubRepoDetails
    /\ UNCHANGED <<clock, githubRepoState, githubRepoCommit, githubRepoTrees,
                   chromaSyncSources, chromaSyncInvocations, remoteStatus, nextUuid, stage, tasks>>

RefreshRepoFetch(p, fetched) ==
    /\ At(p, "fetch", "refreshRepo")
    /\ Release(RepoRow)
    /\ CASE fetched = "repo" ->
              /\ githubRepo' = [githubRepo EXCEPT !.available = "true", !.fetchedAt = Now]
              /\ githubRepoDetails' = TRUE
              /\ Return(p, "ok", RepoValue)
         [] fetched = "error" ->
              /\ githubRepo' = [githubRepo EXCEPT !.available = "false", !.fetchedAt = Now]
              /\ Lost(p, "absent")
              /\ UNCHANGED githubRepoDetails
         [] OTHER ->
              /\ Throw(p, "throw")
              /\ UNCHANGED <<githubRepo, githubRepoDetails>>
    /\ UNCHANGED <<clock, githubRepoState, githubRepoCommit, githubRepoTrees,
                   chromaSyncSources, chromaSyncInvocations, remoteStatus, nextUuid, stage, tasks>>

refreshRepoCurrent ==
    IF ~githubRepo.exists \/ githubRepo.available # "true" THEN NoValue
    ELSE IF ~githubRepoDetails THEN NoValue
    ELSE RepoValue

RefreshRepoCurrent(p) ==
    /\ At(p, "current", "refreshRepo")
    /\ ~ForUpdateWaits(RepoRow)
    /\ Return(p, procs[p].outcome, refreshRepoCurrent)
    /\ UNCHANGED <<clock, dbVars, lock, remoteStatus, nextUuid, stage, tasks>>

\* ---------------------------------------------------------- refreshCommit

\* The placeholder's repo_name references github_repo.name: without the
\* repository row the insert fails and the call throws.
RefreshCommitInsert(p) ==
    /\ At(p, "insert", "refreshCommit")
    /\ IF githubRepo.exists
       THEN /\ githubRepoState' =
                   IF githubRepoState.exists THEN githubRepoState
                   ELSE [exists |-> TRUE, latestCommitSha |-> Null,
                         latestProcessedCommitSha |-> Null, fetchedAt |-> clock]
            /\ Goto(p, "claim")
       ELSE /\ Throw(p, "none")
            /\ UNCHANGED githubRepoState
    /\ UNCHANGED <<clock, githubRepo, githubRepoDetails, githubRepoCommit,
                   githubRepoTrees, chromaSyncSources, chromaSyncInvocations,
                   lock, remoteStatus, nextUuid, stage, tasks>>

refreshCommitWhere(TTL, forced) ==
    /\ githubRepoState.exists
    /\ IF forced THEN TRUE
       ELSE \/ githubRepoState.latestCommitSha = Null
            \/ isExpired(githubRepoState.fetchedAt, TTL)

RefreshCommitClaim(p) ==
    /\ At(p, "claim", "refreshCommit")
    /\ Claim(p, StateRow, refreshCommitWhere(procs[p].ttl, procs[p].force))
    /\ UNCHANGED <<clock, dbVars, remoteStatus, nextUuid, stage, tasks>>

RefreshCommitFetch(p, fetched) ==
    /\ At(p, "fetch", "refreshCommit")
    /\ Release(StateRow)
    /\ CASE fetched \in Shas ->
              /\ githubRepoCommit' = githubRepoCommit \cup {fetched}
              /\ githubRepoState' = [githubRepoState EXCEPT
                                        !.latestCommitSha = fetched,
                                        !.fetchedAt = Now]
              /\ Return(p, "ok", CommitValue(fetched))
         [] fetched = Null ->
              /\ Lost(p, "absent")
              /\ UNCHANGED <<githubRepoCommit, githubRepoState>>
         [] OTHER ->
              /\ Throw(p, "throw")
              /\ UNCHANGED <<githubRepoCommit, githubRepoState>>
    /\ UNCHANGED <<clock, githubRepo, githubRepoDetails, githubRepoTrees,
                   chromaSyncSources, chromaSyncInvocations, remoteStatus, nextUuid, stage, tasks>>

refreshCommitCurrent ==
    IF githubRepoState.exists /\ githubRepoState.latestCommitSha \in githubRepoCommit
    THEN CommitValue(githubRepoState.latestCommitSha)
    ELSE NoValue

RefreshCommitCurrent(p) ==
    /\ At(p, "current", "refreshCommit")
    /\ ~ForUpdateWaits(StateRow)
    /\ Return(p, procs[p].outcome, refreshCommitCurrent)
    /\ UNCHANGED <<clock, dbVars, lock, remoteStatus, nextUuid, stage, tasks>>

\* ------------------------------------------------------------ refreshTree

\* As RefreshTreeInsert, with a plain upsert of the placeholder.
RefreshTreeInsertUpserts(p) ==
    /\ At(p, "insert", "refreshTree")
    /\ IF githubRepo.exists
       THEN /\ githubRepoTrees' =
                   [githubRepoTrees EXCEPT ![procs[p].key] =
                       [exists |-> TRUE, tree |-> Null, fetchedAt |-> clock]]
            /\ Goto(p, "claim")
       ELSE /\ Throw(p, "none")
            /\ UNCHANGED githubRepoTrees
    /\ UNCHANGED <<clock, githubRepo, githubRepoDetails, githubRepoState,
                   githubRepoCommit, chromaSyncSources, chromaSyncInvocations,
                   lock, remoteStatus, nextUuid, stage, tasks>>

RefreshTreeInsert(p) ==
    /\ At(p, "insert", "refreshTree")
    /\ IF githubRepo.exists
       THEN /\ githubRepoTrees' =
                   IF githubRepoTrees[procs[p].key].exists THEN githubRepoTrees
                   ELSE [githubRepoTrees EXCEPT ![procs[p].key] =
                             [exists |-> TRUE, tree |-> Null, fetchedAt |-> clock]]
            /\ Goto(p, "claim")
       ELSE /\ Throw(p, "none")
            /\ UNCHANGED githubRepoTrees
    /\ UNCHANGED <<clock, githubRepo, githubRepoDetails, githubRepoState,
                   githubRepoCommit, chromaSyncSources, chromaSyncInvocations,
                   lock, remoteStatus, nextUuid, stage, tasks>>

refreshTreeWhere(treeSha, TTL, forced) ==
    /\ githubRepoTrees[treeSha].exists
    /\ IF forced THEN TRUE
       ELSE \/ githubRepoTrees[treeSha].tree = Null
            \/ isExpired(githubRepoTrees[treeSha].fetchedAt, TTL)

RefreshTreeClaim(p) ==
    /\ At(p, "claim", "refreshTree")
    /\ Claim(p, TreeRow(procs[p].key),
             refreshTreeWhere(procs[p].key, procs[p].ttl, procs[p].force))
    /\ UNCHANGED <<clock, dbVars, remoteStatus, nextUuid, stage, tasks>>

\* As RefreshTreeFetch, with a null answer written to the row.
RefreshTreeFetchStoresNull(p, fetched) ==
    /\ At(p, "fetch", "refreshTree")
    /\ Release(TreeRow(procs[p].key))
    /\ CASE fetched = "entries" ->
              /\ githubRepoTrees' = [githubRepoTrees EXCEPT ![procs[p].key] =
                                        [@ EXCEPT !.tree = fetched, !.fetchedAt = Now]]
              /\ Return(p, "ok", TreeValue(githubRepoTrees'[procs[p].key]))
         [] fetched = Null ->
              /\ githubRepoTrees' = [githubRepoTrees EXCEPT ![procs[p].key] =
                                        [@ EXCEPT !.tree = Null, !.fetchedAt = Now]]
              /\ Lost(p, "absent")
         [] OTHER ->
              /\ Throw(p, "throw")
              /\ UNCHANGED githubRepoTrees
    /\ UNCHANGED <<clock, githubRepo, githubRepoDetails, githubRepoState,
                   githubRepoCommit, chromaSyncSources, chromaSyncInvocations,
                   remoteStatus, nextUuid, stage, tasks>>

RefreshTreeFetch(p, fetched) ==
    /\ At(p, "fetch", "refreshTree")
    /\ Release(TreeRow(procs[p].key))
    /\ CASE fetched = "entries" ->
              /\ githubRepoTrees' = [githubRepoTrees EXCEPT ![procs[p].key] =
                                        [@ EXCEPT !.tree = fetched, !.fetchedAt = Now]]
              /\ Return(p, "ok", TreeValue(githubRepoTrees'[procs[p].key]))
         [] fetched = Null ->
              /\ Lost(p, "absent")
              /\ UNCHANGED githubRepoTrees
         [] OTHER ->
              /\ Throw(p, "throw")
              /\ UNCHANGED githubRepoTrees
    /\ UNCHANGED <<clock, githubRepo, githubRepoDetails, githubRepoState,
                   githubRepoCommit, chromaSyncSources, chromaSyncInvocations,
                   remoteStatus, nextUuid, stage, tasks>>

refreshTreeCurrent(treeSha) ==
    IF githubRepoTrees[treeSha].exists THEN TreeValue(githubRepoTrees[treeSha])
    ELSE NoValue

RefreshTreeCurrent(p) ==
    /\ At(p, "current", "refreshTree")
    /\ ~ForUpdateWaits(TreeRow(procs[p].key))
    /\ Return(p, procs[p].outcome, refreshTreeCurrent(procs[p].key))
    /\ UNCHANGED <<clock, dbVars, lock, remoteStatus, nextUuid, stage, tasks>>

\* --------------------------------------------------- external indexing API

\* The status field of GET /invocations/{id} as the service sends it: a
\* string, or an object with a "complete" or a "failed" key.
RawStatuses == {"pending", "processing", "cancelled", "{complete}", "{failed}"}

\* As normalizeStatus, without the branch for an object with a "complete" key.
normalizeStatusNoComplete(status) ==
    IF status \in {"pending", "processing", "cancelled"} THEN status
    ELSE IF status = "{failed}" THEN "failed"
    ELSE "pending"

normalizeStatus(status) ==
    IF status \in {"pending", "processing", "cancelled"} THEN status
    ELSE IF status = "{complete}" THEN "completed"
    ELSE IF status = "{failed}" THEN "failed"
    ELSE "pending"

\* createSource, createInvocation: a fresh identifier, or a throw.
CreateResults == {"created", "throw"}
\* getInvocationStatus: the normalized status, or a throw.
GetInvocationStatusResults == {"status", "throw"}

\* ---------------------------------------------------------- refreshSource

RefreshSourceCheck(p) ==
    /\ At(p, "check", "refreshSource")
    /\ IF chromaSyncSources.exists /\ chromaSyncSources.uuid # 0
       THEN Return(p, "none", SourceValue(chromaSyncSources))
       ELSE Goto(p, "insert")
    /\ UNCHANGED <<clock, dbVars, lock, remoteStatus, nextUuid, stage, tasks>>

\* As RefreshSourceInsert, with a plain INSERT: the unique index on
\* repo_name rejects the second placeholder and the call throws.
RefreshSourceInsertPlain(p) ==
    /\ At(p, "insert", "refreshSource")
    /\ IF githubRepo.exists /\ ~chromaSyncSources.exists
       THEN /\ chromaSyncSources' = [exists |-> TRUE, uuid |-> 0]
            /\ Goto(p, "claim")
       ELSE /\ Throw(p, "none")
            /\ UNCHANGED chromaSyncSources
    /\ UNCHANGED <<clock, githubRepo, githubRepoDetails, githubRepoState,
                   githubRepoCommit, githubRepoTrees, chromaSyncInvocations,
                   lock, remoteStatus, nextUuid, stage, tasks>>

RefreshSourceInsert(p) ==
    /\ At(p, "insert", "refreshSource")
    /\ IF githubRepo.exists
       THEN /\ chromaSyncSources' =
                   IF chromaSyncSources.exists THEN chromaSyncSources
                   ELSE [exists |-> TRUE, uuid |-> 0]
            /\ Goto(p, "claim")
       ELSE /\ Throw(p, "none")
            /\ UNCHANGED chromaSyncSources
    /\ UNCHANGED <<clock, githubRepo, githubRepoDetails, githubRepoState,
                   githubRepoCommit, githubRepoTrees, chromaSyncInvocations,
                   lock, remoteStatus, nextUuid, stage, tasks>>

refreshSourceWhereAny == chromaSyncSources.exists
refreshSourceWhere == chromaSyncSources.exists /\ chromaSyncSources.uuid = 0

RefreshSourceClaim(p) ==
    /\ At(p, "claim", "refreshSource")
    /\ Claim(p, SourceRow, refreshSourceWhere)
    /\ UNCHANGED <<clock, dbVars, remoteStatus, nextUuid, stage, tasks>>

RefreshSourceFetch(p, created) ==
    /\ At(p, "fetch", "refreshSource")
    /\ Release(SourceRow)
    /\ IF created = "created"
       THEN /\ chromaSyncSources' = [chromaSyncSources EXCEPT !.uuid = nextUuid]
            /\ nextUuid' = nextUuid + 1
            /\ Return(p, "ok", SourceValue(chromaSyncSources'))
       ELSE /\ Throw(p, "throw")
            /\ UNCHANGED <<chromaSyncSources, nextUuid>>
    /\ UNCHANGED <<clock, githubRepo, githubRepoDetails, githubRepoState,
                   githubRepoCommit, githubRepoTrees, chromaSyncInvocations,
                   remoteStatus, stage, tasks>>

refreshSourceCurrent ==
    IF chromaSyncSources.exists THEN SourceValue(chromaSyncSources) ELSE NoValue

RefreshSourceCurrent(p) ==
    /\ At(p, "current", "refreshSource")
    /\ ~PlainSelectWaits(SourceRow)
    /\ Return(p, procs[p].outcome, refreshSourceCurrent)
    /\ UNCHANGED <<clock, dbVars, lock, remoteStatus, nextUuid, stage, tasks>>

\* ------------------------------------------------------ refreshInvocation

\* As RefreshInvocationCheck, going on whenever the source row exists.
RefreshInvocationCheckRowOnly(p) ==
    /\ At(p, "check", "refreshInvocation")
    /\ IF ~chromaSyncSources.exists
       THEN Return(p, "none", NoValue)
       ELSE procs' = [procs EXCEPT ![p] =
                         [@ EXCEPT !.pc = "insert",
                                   !.snap = [NoInvocation EXCEPT
                                               !.sourceUuid = chromaSyncSources.uuid,
                                               !.targetCollectionName = p]]]
    /\ UNCHANGED <<clock, dbVars, lock, remoteStatus, nextUuid, stage, tasks>>

\* The function keeps the source identifier it read (sourceUuid) and the
\* collection name it drew (randomUUID(): the caller's own number stands for
\* it) in snap.
RefreshInvocationCheck(p) ==
    /\ At(p, "check", "refreshInvocation")
    /\ IF ~chromaSyncSources.exists \/ chromaSyncSources.uuid = 0
       THEN Return(p, "none", NoValue)
       ELSE procs' = [procs EXCEPT ![p] =
                         [@ EXCEPT !.pc = "insert",
                                   !.snap = [NoInvocation EXCEPT
                                               !.sourceUuid = chromaSyncSources.uuid,
                                               !.targetCollectionName = p]]]
    /\ UNCHANGED <<clock, dbVars, lock, remoteStatus, nextUuid, stage, tasks>>

\* As RefreshInvocationInsert, with the placeholder written over a row that
\* is there (ON CONFLICT DO UPDATE).
RefreshInvocationInsertUpserts(p) ==
    /\ At(p, "insert", "refreshInvocation")
    /\ chromaSyncInvocations' =
           [chromaSyncInvocations EXCEPT ![procs[p].key] =
                    [exists |-> TRUE, sourceUuid |-> procs[p].snap.sourceUuid,
                     targetCollectionName |-> procs[p].snap.targetCollectionName,
                     uuid |-> 0, status |-> "pending", fetchedAt |-> clock]]
    /\ Goto(p, "claim")
    /\ UNCHANGED <<clock, githubRepo, githubRepoDetails, githubRepoState,
                   githubRepoCommit, githubRepoTrees, chromaSyncSources,
                   lock, remoteStatus, nextUuid, stage, tasks>>

RefreshInvocationInsert(p) ==
    /\ At(p, "insert", "refreshInvocation")
    /\ chromaSyncInvocations' =
           IF chromaSyncInvocations[procs[p].key].exists THEN chromaSyncInvocations
           ELSE [chromaSyncInvocations EXCEPT ![procs[p].key] =
                    [exists |-> TRUE, sourceUuid |-> procs[p].snap.sourceUuid,
                     targetCollectionName |-> procs[p].snap.targetCollectionName,
                     uuid |-> 0, status |-> "pending", fetchedAt |-> clock]]
    /\ Goto(p, "claim")
    /\ UNCHANGED <<clock, githubRepo, githubRepoDetails, githubRepoState,
                   githubRepoCommit, githubRepoTrees, chromaSyncSources,
                   lock, remoteStatus, nextUuid, stage, tasks>>

refreshInvocationWhereAny(sourceUuid, commitSha) ==
    /\ chromaSyncInvocations[commitSha].exists
    /\ chromaSyncInvocations[commitSha].sourceUuid = sourceUuid

refreshInvocationWhere(sourceUuid, commitSha) ==
    /\ chromaSyncInvocations[commitSha].exists
    /\ chromaSyncInvocations[commitSha].sourceUuid = sourceUuid
    /\ chromaSyncInvocations[commitSha].uuid = 0

\* As RefreshInvocationClaim, with the caller going on with the collection
\* name it drew itself.
RefreshInvocationClaimOwnName(p) ==
    /\ At(p, "claim", "refreshInvocation")
    /\ Claim(p, InvRow(procs[p].key),
             refreshInvocationWhere(procs[p].snap.sourceUuid, procs[p].key))
    /\ UNCHANGED <<clock, dbVars, remoteStatus, nextUuid, stage, tasks>>

\* The claim of refreshInvocation: with a row, the caller goes on to
\* createInvocation with res[0].invocation.targetCollectionName, the name
\* stored in the row it locked (kept in snap from here on).
RefreshInvocationClaim(p) ==
    /\ At(p, "claim", "refreshInvocation")
    /\ IF SkipLocked(InvRow(procs[p].key),
                     refreshInvocationWhere(procs[p].snap.sourceUuid, procs[p].key))
       THEN /\ lock' = [lock EXCEPT ![InvRow(procs[p].key)] = p]
            /\ procs' = [procs EXCEPT ![p] =
                  [@ EXCEPT !.pc = "fetch",
                            !.snap = [@ EXCEPT !.targetCollectionName =
                                chromaSyncInvocations[procs[p].key].targetCollectionName]]]
       ELSE /\ UNCHANGED lock
            /\ Lost(p, "none")
    /\ UNCHANGED <<clock, dbVars, remoteStatus, nextUuid, stage, tasks>>

\* A created invocation starts as pending at the indexing service.
RefreshInvocationFetch(p, created) ==
    /\ At(p, "fetch", "refreshInvocation")
    /\ Release(InvRow(procs[p].key))
    /\ IF created = "created"
       THEN /\ chromaSyncInvocations' =
                   [chromaSyncInvocations EXCEPT ![procs[p].key] =
                       [@ EXCEPT !.uuid = nextUuid, !.fetchedAt = Now]]
            /\ nextUuid' = nextUuid + 1
            /\ remoteStatus' = [remoteStatus EXCEPT ![procs[p].key] = "pending"]
            /\ Return(p, "ok",
                      InvocationValue(procs[p].key, chromaSyncInvocations'[procs[p].key]))
       ELSE /\ Throw(p, "throw")
            /\ UNCHANGED <<chromaSyncInvocations, nextUuid, remoteStatus>>
    /\ UNCHANGED <<clock, githubRepo, githubRepoDetails, githubRepoState,
                   githubRepoCommit, githubRepoTrees, chromaSyncSources, stage, tasks>>

refreshInvocationCurrent(commitSha) ==
    IF chromaSyncInvocations[commitSha].exists
    THEN InvocationValue(commitSha, chromaSyncInvocations[commitSha])
    ELSE NoValue

RefreshInvocationCurrent(p) ==
    /\ At(p, "current", "refreshInvocation")
    /\ ~ForUpdateWaits(InvRow(procs[p].key))
    /\ Return(p, procs[p].outcome, refreshInvocationCurrent(procs[p].key))
    /\ UNCHANGED <<clock, dbVars, lock, remoteStatus, nextUuid, stage, tasks>>

\* ------------------------------------------------ refreshInvocationStatus

\* The caller passes the invocation row it read earlier: snap, of ref key.
RefreshInvocationStatusCheck(p) ==
    /\ At(p, "check", "refreshInvocationStatus")
    /\ IF procs[p].snap.uuid = 0 THEN Return(p, "none", NoValue)
       ELSE IF isTerminalStatus(procs[p].snap.status) /\ ~procs[p].force
            THEN Return(p, "none", InvocationValue(procs[p].key, procs[p].snap))
            ELSE Goto(p, "claim")
    /\ UNCHANGED <<clock, dbVars, lock, remoteStatus, nextUuid, stage, tasks>>

\* res.length > 0 && res[0].invocation.uuid: a locked row without a uuid ends
\* the transaction at once.
refreshInvocationStatusWhere(ref, TTL, forced) ==
    /\ chromaSyncInvocations[ref].exists
    /\ IF forced THEN TRUE
       ELSE isExpired(chromaSyncInvocations[ref].fetchedAt, TTL)
    /\ chromaSyncInvocations[ref].uuid # 0

RefreshInvocationStatusClaim(p) ==
    /\ At(p, "claim", "refreshInvocationStatus")
    /\ Claim(p, InvRow(procs[p].key),
             refreshInvocationStatusWhere(procs[p].key, procs[p].ttl, procs[p].force))
    /\ UNCHANGED <<clock, dbVars, remoteStatus, nextUuid, stage, tasks>>

RefreshInvocationStatusFetch(p, got) ==
    /\ At(p, "fetch", "refreshInvocationStatus")
    /\ Release(InvRow(procs[p].key))
    /\ IF got = "status"
       THEN /\ chromaSyncInvocations' =
                   [chromaSyncInvocations EXCEPT ![procs[p].key] =
                       [@ EXCEPT !.status = normalizeStatus(remoteStatus[procs[p].key]),
                                 !.fetchedAt = Now]]
            /\ Return(p, "ok",
                      InvocationValue(procs[p].key, chromaSyncInvocations'[procs[p].key]))
       ELSE /\ Throw(p, "throw")
            /\ UNCHANGED chromaSyncInvocations
    /\ UNCHANGED <<clock, githubRepo, githubRepoDetails, githubRepoState,
                   githubRepoCommit, githubRepoTrees, chromaSyncSources,
                   remoteStatus, nextUuid, stage, tasks>>

RefreshInvocationStatusCurrent(p) ==
    /\ At(p, "current", "refreshInvocationStatus")
    /\ ~ForUpdateWaits(InvRow(procs[p].key))
    /\ Return(p, procs[p].outcome, refreshInvocationCurrent(procs[p].key))
    /\ UNCHANGED <<clock, dbVars, lock, remoteStatus, nextUuid, stage, tasks>>

\* ----------------------------------------------------------- environment

Ops == {"refreshRepo", "refreshCommit", "refreshTree",
        "refreshSource", "refreshInvocation", "refreshInvocationStatus"}

\* The TTL does not matter to a forced call: it is passed as 0.
TtlForce == (TTLs \X {FALSE}) \cup {<<0, TRUE>>}

\* The (key, TTL, force) a caller may pass to each function.
Args(o) ==
    CASE o \in {"refreshRepo", "refreshCommit"} ->
            {<<Null, tf[1], tf[2]>> : tf \in TtlForce}
      [] o = "refreshTree" ->
            {<<sha, tf[1], tf[2]>> : sha \in Shas, tf \in TtlForce}
      [] o = "refreshSource" -> {<<Null, 0, FALSE>>}
      [] o = "refreshInvocation" -> Shas \X {0} \X {FALSE}
      [] o = "refreshInvocationStatus" ->
            {<<sha, tf[1], tf[2]>> :
                sha \in {x \in Shas : chromaSyncInvocations[x].exists}, tf \in TtlForce}

FirstStep(o) ==
    IF o \in {"refreshRepo", "refreshCommit", "refreshTree"} THEN "insert" ELSE "check"

\* The row a call refreshes.
RowOf(o, k) ==
    CASE o = "refreshRepo" -> RepoRow
      [] o = "refreshCommit" -> StateRow
      [] o = "refreshTree" -> TreeRow(k)
      [] o = "refreshSource" -> SourceRow
      [] OTHER -> InvRow(k)

Started == {p \in Procs : procs[p].pc # "idle"}

\* The workload of one run: its callers contend for one row, and the callers
\* of one function pass the same TTL and force flag.
SameRow(o, k) ==
    \A q \in Started : RowOf(procs[q].op, procs[q].key) = RowOf(o, k)

SameArgs(o, t, f) ==
    \A q \in Started : procs[q].op = o => procs[q].ttl = t /\ procs[q].force = f

\* A caller enters a refresh function; the callers enter in the order of
\* their numbers.  The caller of refreshInvocationStatus passes the invocation
\* row as it reads it now.
Call(p, o, k, t, f) ==
    /\ procs[p].pc = "idle"
    /\ \A q \in Procs : q < p => q \in Started
    /\ <<k, t, f>> \in Args(o)
    /\ SameRow(o, k)
    /\ SameArgs(o, t, f)
    /\ procs' = [procs EXCEPT ![p] =
                    [Idle EXCEPT !.pc = FirstStep(o), !.op = o, !.key = k,
                                 !.ttl = t, !.force = f,
                                 !.snap = IF o = "refreshInvocationStatus"
                                          THEN chromaSyncInvocations[k]
                                          ELSE NoInvocation]]
    /\ UNCHANGED <<clock, dbVars, lock, remoteStatus, nextUuid, stage, tasks>>

Tick ==
    /\ clock < MaxClock
    /\ clock' = clock + 1
    /\ UNCHANGED <<dbVars, lock, remoteStatus, nextUuid, procs, stage, tasks>>

\* The indexing service works on an invocation: pending, then processing,
\* then one of the three final states.  Its progress is seen only through
\* getInvocationStatus, so it is taken while such a call is being answered.
RemoteNext(status) ==
    CASE status = "pending" -> {"processing"}
      [] status = "processing" -> {"{complete}", "{failed}", "cancelled"}
      [] OTHER -> {}

RemoteAdvance(sha) ==
    /\ \E p \in Procs : /\ procs[p].pc = "fetch"
                       /\ procs[p].op = "refreshInvocationStatus"
                       /\ procs[p].key = sha
    /\ \E status \in RemoteNext(remoteStatus[sha]) :
          remoteStatus' = [remoteStatus EXCEPT ![sha] = status]
    /\ UNCHANGED <<clock, dbVars, lock, nextUuid, procs, stage, tasks>>

\* ------------------------------------------------------------------- Init

InitProcs ==
    /\ procs = [p \in Procs |-> Idle]
    /\ lock = [r \in Rows |-> 0]
    /\ clock = 0
    /\ tasks = {}

\* The store before the repository was ever requested.
InitEmpty ==
    /\ githubRepo = NoRepo
    /\ githubRepoDetails = FALSE
    /\ githubRepoState = NoState
    /\ githubRepoCommit = {}
    /\ githubRepoTrees = [sha \in Shas |-> NoTree]
    /\ chromaSyncSources = NoSource
    /\ chromaSyncInvocations = [sha \in Shas |-> NoInvocation]
    /\ remoteStatus = [sha \in Shas |-> Null]
    /\ nextUuid = 1
    /\ stage = "empty"

\* The store after the repository was fetched: available, with its details.
InitRepo ==
    /\ githubRepo = [exists |-> TRUE, available |-> "true", fetchedAt |-> 0]
    /\ githubRepoDetails = TRUE
    /\ githubRepoState = NoState
    /\ githubRepoCommit = {}
    /\ githubRepoTrees = [sha \in Shas |-> NoTree]
    /\ chromaSyncSources = NoSource
    /\ chromaSyncInvocations = [sha \in Shas |-> NoInvocation]
    /\ remoteStatus = [sha \in Shas |-> Null]
    /\ nextUuid = 1
    /\ stage = "repo"

\* The store after commit abc123 was fetched with its tree, the source was
\* registered and the invocation for abc123 was created; the head commit and
\* the invocation's status were last fetched one tick before the run begins.
InitInvoked ==
    /\ githubRepo = [exists |-> TRUE, available |-> "true", fetchedAt |-> 0]
    /\ githubRepoDetails = TRUE
    /\ githubRepoState = [exists |-> TRUE, latestCommitSha |-> "abc123",
                          latestProcessedCommitSha |-> Null, fetchedAt |-> -1]
    /\ githubRepoCommit = {"abc123"}
    /\ githubRepoTrees = [sha \in Shas |->
                             IF sha = "abc123"
                             THEN [exists |-> TRUE, tree |-> "entries", fetchedAt |-> 0]
                             ELSE NoTree]
    /\ chromaSyncSources = [exists |-> TRUE, uuid |-> 1]
    /\ chromaSyncInvocations =
           [sha \in Shas |->
               IF sha = "abc123"
               THEN [exists |-> TRUE, sourceUuid |-> 1, targetCollectionName |-> 0,
                     uuid |-> 2, status |-> "pending", fetchedAt |-> -1]
               ELSE NoInvocation]
    /\ remoteStatus = [sha \in Shas |-> IF sha = "abc123" THEN "pending" ELSE Null]
    /\ nextUuid = 3
    /\ stage = "invoked"

Init == InitProcs /\ (InitEmpty \/ InitRepo \/ InitInvoked)

\* ------------------------------------------------------------------- Next

StepGithub(p) ==
    \/ RefreshRepoInsert(p)
    \/ RefreshRepoClaim(p)
    \/ \E fetched \in GetRepositoryResults : RefreshRepoFetch(p, fetched)
    \/ RefreshRepoCurrent(p)
    \/ RefreshCommitInsert(p)
    \/ RefreshCommitClaim(p)
    \/ \E fetched \in GetBranchCommitResults : RefreshCommitFetch(p, fetched)
    \/ RefreshCommitCurrent(p)
    \/ RefreshTreeInsert(p)
    \/ RefreshTreeClaim(p)
    \/ \E fetched \in GetRepositoryTreeResults : RefreshTreeFetch(p, fetched)
    \/ RefreshTreeCurrent(p)

StepChroma(p) ==
    \/ RefreshSourceCheck(p)
    \/ RefreshSourceInsert(p)
    \/ RefreshSourceClaim(p)
    \/ \E created \in CreateResults : RefreshSourceFetch(p, created)
    \/ RefreshInvocationCheck(p)
    \/ RefreshInvocationInsert(p)
    \/ RefreshInvocationClaim(p)
    \/ \E created \in CreateResults : RefreshInvocationFetch(p, created)
    \/ RefreshInvocationCurrent(p)
    \/ RefreshInvocationStatusCheck(p)
    \/ RefreshInvocationStatusClaim(p)
    \/ \E got \in GetInvocationStatusResults : RefreshInvocationStatusFetch(p, got)

\* The reads of the stored row that only a caller contending for a source or
\* for an invocation's status reaches.
StepChromaContended(p) ==
    \/ RefreshSourceCurrent(p)
    \/ RefreshInvocationStatusCurrent(p)

Next ==
    \/ \E p \in Procs, o \in Ops : \E a \in Args(o) : Call(p, o, a[1], a[2], a[3])
    \/ \E p \in Procs : StepGithub(p)
    \/ \E p \in Procs : StepChroma(p)
    \/ \E p \in Procs : StepChromaContended(p)
    \/ Tick
    \/ \E sha \in Shas : RemoteAdvance(sha)

Spec == Init /\ [][Next]_vars

\* --------------------------------------------------- the status handler

isStaleGe(fetchedAt, maxAge) == clock - fetchedAt >= maxAge
isStale(fetchedAt, maxAge) == clock - fetchedAt > maxAge

\* getCurrentState: the repository row left-joined with its details, its
\* state, the latest commit, that commit's tree, the source, and the
\* invocation of (source, latest commit) that has an identifier; then the
\* commit latestProcessedCommitSha names.
getCurrentState ==
    LET state == IF githubRepo.exists THEN githubRepoState ELSE NoState
        commit == IF state.exists /\ state.latestCommitSha \in githubRepoCommit
                  THEN state.latestCommitSha ELSE Null
        source == IF githubRepo.exists THEN chromaSyncSources ELSE NoSource
        joined == /\ commit # Null
                  /\ source.exists /\ source.uuid # 0
                  /\ chromaSyncInvocations[commit].exists
                  /\ chromaSyncInvocations[commit].uuid # 0
                  /\ chromaSyncInvocations[commit].sourceUuid = source.uuid
    IN [repo |-> githubRepo,
        repoDetails |-> githubRepo.exists /\ githubRepoDetails,
        state |-> state,
        latestCommit |-> commit,
        latestProcessedCommit |->
            IF state.exists /\ state.latestProcessedCommitSha \in githubRepoCommit
            THEN state.latestProcessedCommitSha ELSE Null,
        tree |-> IF commit # Null THEN githubRepoTrees[commit] ELSE NoTree,
        source |-> source,
        invocation |-> IF joined THEN chromaSyncInvocations[commit] ELSE NoInvocation,
        invocationRef |-> IF joined THEN commit ELSE Null]

formatResponseEqualFirst(state) ==
    [code |-> 200,
     exists |-> state.repo.available = "true",
     sync_status |->
        IF state.state.latestCommitSha = state.state.latestProcessedCommitSha
        THEN "up_to_date"
        ELSE IF ~state.state.exists \/ state.state.latestProcessedCommitSha = Null
        THEN "processing"
        ELSE "out_of_date",
     repo_info |-> state.repoDetails,
     latest_commit |-> state.latestCommit,
     latest_processed_commit |-> state.latestProcessedCommit,
     tree |-> state.tree.tree]

formatResponse(state) ==
    [code |-> 200,
     exists |-> state.repo.available = "true",
     sync_status |->
        IF ~state.state.exists \/ state.state.latestProcessedCommitSha = Null
        THEN "processing"
        ELSE IF state.state.latestCommitSha = state.state.latestProcessedCommitSha
        THEN "up_to_date"
        ELSE "out_of_date",
     repo_info |-> state.repoDetails,
     latest_commit |-> state.latestCommit,
     latest_processed_commit |-> state.latestProcessedCommit,
     tree |-> state.tree.tree]

\* needsRefresh, and with it the conditions under which each call is made.
needsRefreshCommit(state) ==
    /\ \/ ~state.state.exists
       \/ state.state.latestCommitSha = Null
       \/ isStale(state.state.fetchedAt, ONE_DAY_MS)
    /\ state.repo.available = "true"
    /\ state.repoDetails

needsRefreshTree(state) ==
    /\ state.latestCommit # Null
    /\ ~state.tree.exists \/ state.tree.tree = Null

needsRefreshSourceAfterCommit(state) ==
    /\ state.latestCommit # Null
    /\ ~state.source.exists \/ state.source.uuid = 0
    /\ state.repo.available = "true"

needsRefreshSource(state) ==
    /\ ~state.source.exists \/ state.source.uuid = 0
    /\ state.repo.available = "true"

needsRefreshInvocation(state) ==
    /\ state.latestCommit # Null
    /\ state.source.exists
    /\ ~state.invocation.exists

needsRefreshInvocationStatus(state) ==
    /\ state.invocation.exists
    /\ ~isTerminalStatus(state.invocation.status)
    /\ isStale(state.invocation.fetchedAt, STATUS_UPDATE_THRESHOLD_MS)

\* The calls the handler starts and does not await.
FireAndForget(state) ==
    (IF needsRefreshCommit(state) THEN {<<"refreshCommit", Null>>} ELSE {})
    \cup (IF needsRefreshTree(state)
          THEN {<<"refreshTree", state.latestCommit>>} ELSE {})
    \cup (IF needsRefreshSource(state) THEN {<<"refreshSource", Null>>} ELSE {})
    \cup (IF needsRefreshInvocation(state)
          THEN {<<"refreshInvocation", state.latestCommit>>} ELSE {})

\* The TTL a function takes when the caller passes none.
DefaultTTL(o) ==
    CASE o = "refreshRepo" -> ONE_MONTH_MS
      [] o \in {"refreshCommit", "refreshTree"} -> ONE_DAY_MS
      [] o = "refreshInvocationStatus" -> STATUS_UPDATE_THRESHOLD_MS
      [] OTHER -> 0

Respond(p, response) ==
    procs' = [procs EXCEPT ![p] = [Idle EXCEPT !.pc = "responded", !.op = "GET",
                                               !.resp = response]]

\* A status request arrives.  The workload: caller 1 serves the requests, one
\* at a time, and a request arrives when the calls its predecessors started
\* without awaiting them have begun.
Get(p) ==
    /\ procs[p].pc = "idle"
    /\ p = 1
    /\ tasks = {}
    /\ procs' = [procs EXCEPT ![p] = [Idle EXCEPT !.pc = "snapshot", !.op = "GET"]]
    /\ UNCHANGED <<clock, dbVars, lock, remoteStatus, nextUuid, stage, tasks>>

\* As Route, without the answer for a repository stored as unavailable.
RouteWithout404(p, state) ==
    IF ~state.repo.exists \/ state.repo.available = Null
    THEN Respond(p, [code |-> 500]) /\ UNCHANGED tasks
    ELSE /\ tasks' = tasks \cup FireAndForget(state)
         /\ IF needsRefreshInvocationStatus(state)
            THEN procs' = [procs EXCEPT ![p] =
                              [Idle EXCEPT !.pc = "check",
                                           !.op = "refreshInvocationStatus",
                                           !.key = state.invocationRef,
                                           !.ttl = DefaultTTL("refreshInvocationStatus"),
                                           !.snap = state.invocation,
                                           !.req = "status",
                                           !.state = state]]
            ELSE Respond(p, formatResponse(state))

\* From the snapshot on: the 500 and 404 answers; otherwise the calls that
\* are not awaited are started, and refreshInvocationStatus is awaited when
\* the snapshot's invocation is unfinished and stale.
Route(p, state) ==
    IF ~state.repo.exists \/ state.repo.available = Null
    THEN Respond(p, [code |-> 500]) /\ UNCHANGED tasks
    ELSE IF state.repo.available = "false"
    THEN Respond(p, [code |-> 404]) /\ UNCHANGED tasks
    ELSE /\ tasks' = tasks \cup FireAndForget(state)
         /\ IF needsRefreshInvocationStatus(state)
            THEN procs' = [procs EXCEPT ![p] =
                              [Idle EXCEPT !.pc = "check",
                                           !.op = "refreshInvocationStatus",
                                           !.key = state.invocationRef,
                                           !.ttl = DefaultTTL("refreshInvocationStatus"),
                                           !.snap = state.invocation,
                                           !.req = "status",
                                           !.state = state]]
            ELSE Respond(p, formatResponse(state))

\* The first snapshot; a missing, never fetched or stale repository row is
\* refreshed, and the handler waits for it.
GetSnapshot(p) ==
    /\ At(p, "snapshot", "GET")
    /\ LET state == getCurrentState
       IN IF \/ ~state.repo.exists
             \/ state.repo.available = Null
             \/ isStale(state.repo.fetchedAt, ONE_MONTH_MS)
          THEN /\ procs' = [procs EXCEPT ![p] =
                               [Idle EXCEPT !.pc = "insert", !.op = "refreshRepo",
                                            !.ttl = DefaultTTL("refreshRepo"),
                                            !.req = "repo"]]
               /\ UNCHANGED tasks
          ELSE Route(p, state)
    /\ UNCHANGED <<clock, dbVars, lock, remoteStatus, nextUuid, stage>>

\* refreshRepo returned: the second snapshot.
GetSnapshotAgain(p) ==
    /\ procs[p].pc = "done" /\ procs[p].req = "repo"
    /\ Route(p, getCurrentState)
    /\ UNCHANGED <<clock, dbVars, lock, remoteStatus, nextUuid, stage>>

\* An awaited call threw: the catch block answers 500.
GetCatch(p) ==
    /\ procs[p].pc = "threw" /\ procs[p].req # "none"
    /\ Respond(p, [code |-> 500])
    /\ UNCHANGED <<clock, dbVars, lock, remoteStatus, nextUuid, stage, tasks>>

\* refreshInvocationStatus returned: with a final status the handler goes on
\* to move latestProcessedCommitSha, without one it answers.
GetAfterStatus(p) ==
    /\ procs[p].pc = "done" /\ procs[p].req = "status"
    /\ IF procs[p].ret # NoValue /\ isTerminalStatus(procs[p].ret.status)
       THEN procs' = [procs EXCEPT ![p] =
                         [@ EXCEPT !.pc = "advance", !.op = "GET", !.req = "none"]]
       ELSE Respond(p, formatResponse(procs[p].state))
    /\ UNCHANGED <<clock, dbVars, lock, remoteStatus, nextUuid, stage, tasks>>

\* As GetAdvance, with the answer formatted from the state row just written.
GetAdvanceRereads(p) ==
    /\ At(p, "advance", "GET")
    /\ lock[StateRow] = 0
    /\ githubRepoState' =
          IF githubRepoState.exists
          THEN [githubRepoState EXCEPT
                   !.latestProcessedCommitSha = procs[p].ret.refIdentifier]
          ELSE githubRepoState
    /\ Respond(p, formatResponse([procs[p].state EXCEPT !.state = githubRepoState']))
    /\ UNCHANGED <<clock, githubRepo, githubRepoDetails, githubRepoCommit,
                   githubRepoTrees, chromaSyncSources, chromaSyncInvocations,
                   lock, remoteStatus, nextUuid, stage, tasks>>

\* UPDATE github_repo_state SET latest_processed_commit_sha = refIdentifier:
\* a statement of its own, which waits for the row lock; then the answer, from
\* the snapshot.
GetAdvance(p) ==
    /\ At(p, "advance", "GET")
    /\ lock[StateRow] = 0
    /\ githubRepoState' =
          IF githubRepoState.exists
          THEN [githubRepoState EXCEPT
                   !.latestProcessedCommitSha = procs[p].ret.refIdentifier]
          ELSE githubRepoState
    /\ Respond(p, formatResponse(procs[p].state))
    /\ UNCHANGED <<clock, githubRepo, githubRepoDetails, githubRepoCommit,
                   githubRepoTrees, chromaSyncSources, chromaSyncInvocations,
                   lock, remoteStatus, nextUuid, stage, tasks>>

\* The response is sent.
Reap(p) ==
    /\ At(p, "responded", "GET")
    /\ procs' = [procs EXCEPT ![p] = Idle]
    /\ UNCHANGED <<clock, dbVars, lock, remoteStatus, nextUuid, stage, tasks>>

\* One of the calls started without being awaited begins.  The workload:
\* caller 2 runs these calls, one at a time.
TaskStart(q, task) ==
    /\ task \in tasks
    /\ procs[q].pc = "idle"
    /\ q = 2
    /\ tasks' = tasks \ {task}
    /\ procs' = [procs EXCEPT ![q] =
                    [Idle EXCEPT !.pc = FirstStep(task[1]), !.op = task[1],
                                 !.key = task[2], !.ttl = DefaultTTL(task[1]),
                                 !.bg = TRUE]]
    /\ UNCHANGED <<clock, dbVars, lock, remoteStatus, nextUuid, stage>>

Tasks == (Ops \ {"refreshRepo", "refreshInvocationStatus"}) \X (Shas \cup {Null})

NextStatus ==
    \/ \E p \in Procs : Get(p)
    \/ \E p \in Procs : GetSnapshot(p)
    \/ \E p \in Procs : GetSnapshotAgain(p)
    \/ \E p \in Procs : GetCatch(p)
    \/ \E p \in Procs : GetAfterStatus(p)
    \/ \E p \in Procs : GetAdvance(p)
    \/ \E p \in Procs : Reap(p)
    \/ \E q \in Procs : \E task \in Tasks : TaskStart(q, task)
    \/ \E p \in Procs : StepGithub(p)
    \/ \E p \in Procs : StepChroma(p)
    \/ Tick
    \/ \E sha \in Shas : RemoteAdvance(sha)

SpecStatus == Init /\ [][NextStatus]_vars

\* ------------------------------------------- the single-flight scenario

\* A burst of concurrent non-forced calls of one source-control refresh
\* function on a key that has no row yet: every caller enters before any
\* caller has returned.
GithubOps == {"refreshRepo", "refreshCommit", "refreshTree"}

RowExists(row) ==
    CASE row = RepoRow -> githubRepo.exists
      [] row = StateRow -> githubRepoState.exists
      [] row = SourceRow -> chromaSyncSources.exists
      [] row[1] = "tree" -> githubRepoTrees[row[2]].exists
      [] OTHER -> chromaSyncInvocations[row[2]].exists

BurstCall(p, o, k, t) ==
    /\ o \in GithubOps
    /\ o = "refreshRepo" \/ githubRepo.exists
    /\ Started = {} => ~RowExists(RowOf(o, k))
    /\ \A q \in Started : procs[q].pc \notin {"done", "threw"}
    /\ Call(p, o, k, t, FALSE)

NextSingleFlight ==
    \/ \E p \in Procs, o \in GithubOps : \E a \in Args(o) :
          BurstCall(p, o, a[1], a[2])
    \/ \E p \in Procs : StepGithub(p)
    \/ Tick

InitSingleFlight == InitProcs /\ (InitEmpty \/ InitRepo)

SpecSingleFlight == InitSingleFlight /\ [][NextSingleFlight]_vars

\* ------------------------------------- the concurrent-requests scenario

\* Status requests that arrive together, served by any caller, with the
\* calls they start running on any caller, all within one clock reading.

\* The store after commit abc123 was indexed (its invocation completed and
\* latestProcessedCommitSha was moved to it) and refreshCommit then found the
\* branch head at def456: the commit row and the head pointer are written,
\* the tree and the invocation of def456 are not there yet.
InitNewCommit ==
    /\ githubRepo = [exists |-> TRUE, available |-> "true", fetchedAt |-> 0]
    /\ githubRepoDetails = TRUE
    /\ githubRepoState = [exists |-> TRUE, latestCommitSha |-> "def456",
                          latestProcessedCommitSha |-> "abc123", fetchedAt |-> 0]
    /\ githubRepoCommit = {"abc123", "def456"}
    /\ githubRepoTrees = [sha \in Shas |->
                             IF sha = "abc123"
                             THEN [exists |-> TRUE, tree |-> "entries", fetchedAt |-> 0]
                             ELSE NoTree]
    /\ chromaSyncSources = [exists |-> TRUE, uuid |-> 1]
    /\ chromaSyncInvocations =
           [sha \in Shas |->
               IF sha = "abc123"
               THEN [exists |-> TRUE, sourceUuid |-> 1, targetCollectionName |-> 0,
                     uuid |-> 2, status |-> "completed", fetchedAt |-> 0]
               ELSE NoInvocation]
    /\ remoteStatus = [sha \in Shas |-> IF sha = "abc123" THEN "{complete}" ELSE Null]
    /\ nextUuid = 3
    /\ stage = "newcommit"

\* The callers are interchangeable: what starts, starts on the free caller
\* with the lowest number.
LowestFree(p) ==
    /\ procs[p].pc = "idle"
    /\ \A q \in Procs : q < p => procs[q].pc # "idle"

\* The callers that are serving a status request.
Serving == {p \in Procs : procs[p].op = "GET" \/ procs[p].req # "none"}

\* A status request arrives.  The workload: two requests at a time, arriving
\* when the calls that the requests answered before started without awaiting
\* them have begun.
GetConcurrent(p) ==
    /\ LowestFree(p)
    /\ Cardinality(Serving) < 2
    /\ tasks = {}
    /\ procs' = [procs EXCEPT ![p] = [Idle EXCEPT !.pc = "snapshot", !.op = "GET"]]
    /\ UNCHANGED <<clock, dbVars, lock, remoteStatus, nextUuid, stage, tasks>>

\* One of the calls started without being awaited begins on a free caller.
TaskStartConcurrent(q, task) ==
    /\ task \in tasks
    /\ LowestFree(q)
    /\ tasks' = tasks \ {task}
    /\ procs' = [procs EXCEPT ![q] =
                    [Idle EXCEPT !.pc = FirstStep(task[1]), !.op = task[1],
                                 !.key = task[2], !.ttl = DefaultTTL(task[1]),
                                 !.bg = TRUE]]
    /\ UNCHANGED <<clock, dbVars, lock, remoteStatus, nextUuid, stage>>

StepRegistration(p) ==
    \/ RefreshSourceCheck(p)
    \/ RefreshSourceInsert(p)
    \/ RefreshSourceClaim(p)
    \/ \E created \in CreateResults : RefreshSourceFetch(p, created)
    \/ RefreshSourceCurrent(p)
    \/ RefreshInvocationCheck(p)
    \/ RefreshInvocationInsert(p)
    \/ RefreshInvocationClaim(p)
    \/ \E created \in CreateResults : RefreshInvocationFetch(p, created)
    \/ RefreshInvocationCurrent(p)

NextConcurrent ==
    \/ \E p \in Procs : GetConcurrent(p)
    \/ \E p \in Procs : GetSnapshot(p)
    \/ \E p \in Procs : GetSnapshotAgain(p)
    \/ \E p \in Procs : GetCatch(p)
    \/ \E p \in Procs : Reap(p)
    \/ \E q \in Procs : \E task \in Tasks : TaskStartConcurrent(q, task)
    \/ \E p \in Procs : StepGithub(p)
    \/ \E p \in Procs : StepRegistration(p)

InitConcurrent == InitProcs /\ (InitEmpty \/ InitNewCommit)

SpecConcurrent == InitConcurrent /\ [][NextConcurrent]_vars

\* ================================================================ claims

\* The caller's external call (fetch or create) was issued.
Issued(p) == procs[p].pc = "fetch" \/ procs[p].outcome # "none"
\* The caller's claim step is behind it.
PastClaim(p) == procs[p].pc \in {"fetch", "current"} \/ Issued(p)
CallersOf(row) ==
    {p \in Started : RowOf(procs[p].op, procs[p].key) = row}
ExternalCalls(o, k) ==
    Cardinality({p \in Started : procs[p].op = o /\ procs[p].key = k /\ Issued(p)})
NoFailure == \A p \in Procs : procs[p].outcome \in {"none", "ok"} /\ procs[p].pc # "threw"

SingleFlightFor(t) ==
    ((\A p \in Started : procs[p].ttl = t) /\ NoFailure) =>
        \A p \in Started :
            /\ ExternalCalls(procs[p].op, procs[p].key) <= 1
            /\ PastClaim(p) => ExternalCalls(procs[p].op, procs[p].key) = 1

InFlight(row) == {p \in CallersOf(row) : procs[p].pc = "fetch"}

C2_MutualExclusion == \A row \in Rows : Cardinality(InFlight(row)) <= 1

\* One call is in flight on a row and another caller of the row has lost the
\* claim.
C2_Witness ==
    \E row \in Rows : \E p, q \in CallersOf(row) :
        /\ p # q
        /\ procs[p].pc = "fetch"
        /\ procs[q].pc = "current"

\* C3 as stated: a caller of refreshRepo, refreshCommit, refreshTree,
\* refreshInvocation or refreshInvocationStatus that did not get the row lock
\* goes on and returns without waiting: its read of the stored row never has
\* to wait for the caller that holds the lock.
C3_NoWaitOnContention ==
    \A p \in Procs :
        (procs[p].pc = "current" /\ procs[p].op # "refreshSource") =>
            ~ForUpdateWaits(RowOf(procs[p].op, procs[p].key))

\* C4: concurrent registration attempts on one natural key (refreshSource on a
\* repository name, refreshInvocation on (source, commit SHA)), create
\* succeeding, make exactly one external create call: never two, and one as
\* soon as a caller is past its claim on a key that was not registered.
RegistrationOps == {"refreshSource", "refreshInvocation"}

RegisteredAtStart(o, k) ==
    stage = "invoked" /\ (o = "refreshSource" \/ k = "abc123")

C4_IdempotentRegistration ==
    NoFailure =>
        \A p \in Started :
            procs[p].op \in RegistrationOps =>
                /\ ExternalCalls(procs[p].op, procs[p].key) <= 1
                /\ (PastClaim(p) /\ ~RegisteredAtStart(procs[p].op, procs[p].key))
                      => ExternalCalls(procs[p].op, procs[p].key) = 1

\* Every caller registered the same key and returned; one create call.
C4_Witness ==
    /\ Started = Procs
    /\ NoFailure
    /\ \A p \in Procs : procs[p].op \in RegistrationOps /\ procs[p].pc = "done"
    /\ \E p \in Procs : procs[p].outcome = "ok"
    /\ \E p \in Procs : procs[p].outcome = "none" /\ procs[p].ret # NoValue

\* The identifier stored for the key a registration call is about.
AssignedUuid(o, k) ==
    IF o = "refreshSource" THEN chromaSyncSources.uuid ELSE chromaSyncInvocations[k].uuid

Registered(p) ==
    /\ procs[p].op \in RegistrationOps
    /\ procs[p].pc = "done"
    /\ procs[p].ret # NoValue

\* C5 as stated: create succeeding, every call of refreshSource and
\* refreshInvocation returns a row carrying the identifier assigned by the
\* single create call.
C5_Convergence ==
    NoFailure =>
        \A p \in Procs :
            Registered(p) =>
                /\ procs[p].ret.uuid # 0
                /\ procs[p].ret.uuid = AssignedUuid(procs[p].op, procs[p].key)

\* C5 amended: create succeeding, every refreshInvocation call that returns a
\* row returns it with the identifier assigned by the single create call; a
\* refreshSource call returns that identifier or, having lost the claim to a
\* create call, the row with a null identifier.  No call returns another
\* identifier.
C5_ConvergenceOrPlaceholder ==
    NoFailure =>
        \A p \in Procs :
            Registered(p) =>
                IF procs[p].op = "refreshInvocation"
                THEN /\ procs[p].ret.uuid # 0
                     /\ procs[p].ret.uuid = AssignedUuid(procs[p].op, procs[p].key)
                ELSE \/ /\ procs[p].ret.uuid # 0
                        /\ procs[p].ret.uuid = AssignedUuid(procs[p].op, procs[p].key)
                     \/ /\ procs[p].ret.uuid = 0
                        /\ ExternalCalls(procs[p].op, procs[p].key) = 1

\* Two refreshInvocation calls on an unregistered commit both returned the
\* row with the one identifier.
C5_Witness ==
    /\ NoFailure
    /\ \E p, q \in Procs :
          /\ p # q
          /\ Registered(p) /\ Registered(q)
          /\ procs[p].op = "refreshInvocation" /\ procs[q].op = "refreshInvocation"
          /\ procs[p].outcome = "ok" /\ procs[q].outcome = "none"
          /\ ~RegisteredAtStart("refreshInvocation", procs[p].key)
          /\ procs[q].ret.uuid = procs[p].ret.uuid

\* C6 as stated: once the stored status of an invocation row is completed,
\* failed or cancelled, no getInvocationStatus call is issued for it, whatever
\* snapshot the caller passed, whatever the force flag, however much time has
\* passed.
C6_TerminalAbsorption ==
    \A p \in Procs :
        (procs[p].op = "refreshInvocationStatus" /\ procs[p].pc = "fetch") =>
            ~isTerminalStatus(chromaSyncInvocations[procs[p].key].status)

\* C7 as stated: latestProcessedCommitSha is null or the ref of an invocation
\* whose stored status is completed; the status handler moves it to an
\* invocation's ref only when that invocation ended completed.
C7_ProcessedIsCompleted ==
    githubRepoState.latestProcessedCommitSha # Null =>
        chromaSyncInvocations[githubRepoState.latestProcessedCommitSha].status
            = "completed"

\* The functions that take a TTL and a force flag.
TtlOps == {"refreshRepo", "refreshCommit", "refreshTree", "refreshInvocationStatus"}

FetchedAt(o, k) ==
    CASE o = "refreshRepo" -> githubRepo.fetchedAt
      [] o = "refreshCommit" -> githubRepoState.fetchedAt
      [] o = "refreshTree" -> githubRepoTrees[k].fetchedAt
      [] OTHER -> chromaSyncInvocations[k].fetchedAt

NeverFetched(o, k) ==
    CASE o = "refreshRepo" -> githubRepo.available = Null
      [] o = "refreshCommit" -> githubRepoState.latestCommitSha = Null
      [] o = "refreshTree" -> githubRepoTrees[k].tree = Null
      [] OTHER -> FALSE

Eligible(p) ==
    \/ NeverFetched(procs[p].op, procs[p].key)
    \/ procs[p].force
    \/ clock - FetchedAt(procs[p].op, procs[p].key) > procs[p].ttl

StoredValue(o, k) ==
    CASE o = "refreshRepo" -> refreshRepoCurrent
      [] o = "refreshCommit" -> refreshCommitCurrent
      [] o = "refreshTree" -> refreshTreeCurrent(k)
      [] OTHER -> refreshInvocationCurrent(k)

\* C8: a non-forced call on a row that holds a fetched value not older than
\* ttl issues no external call and returns the stored value; an external fetch
\* is issued only when the row was never fetched, or force is set, or
\* now - fetchedAt > ttl.
C8_EligibilityGate ==
    [][\A p \in Procs :
          procs[p].op \in TtlOps =>
              /\ (procs[p].pc = "claim" /\ procs'[p].pc = "fetch") => Eligible(p)
              /\ (procs[p].pc = "claim" /\ procs'[p].pc # "claim" /\ ~Eligible(p)) =>
                    /\ procs'[p].pc = "current"
                    /\ procs'[p].outcome = "none"
                    /\ dbVars' = dbVars
              /\ (procs[p].pc = "current" /\ procs'[p].pc = "done") =>
                    procs'[p].ret = StoredValue(procs[p].op, procs[p].key)]_vars

\* A non-forced call returned the stored tree while the row was fresh, and
\* no caller issued a fetch.
C8_Witness ==
    \E p \in Procs :
        /\ procs[p].op = "refreshTree" /\ procs[p].pc = "done"
        /\ ~procs[p].force /\ procs[p].ttl = LongTTL
        /\ procs[p].ret.type = "tree" /\ procs[p].ret.tree # Null
        /\ clock > 0
        /\ ExternalCalls(procs[p].op, procs[p].key) = 0

\* C9: the stored fetchedAt of every repository, repository state, tree and
\* invocation row never decreases, the clock being non-decreasing.
C9_MonotonicFreshness ==
    [][/\ githubRepo.exists => githubRepo'.fetchedAt >= githubRepo.fetchedAt
       /\ githubRepoState.exists =>
             githubRepoState'.fetchedAt >= githubRepoState.fetchedAt
       /\ \A sha \in Shas :
             /\ githubRepoTrees[sha].exists =>
                   githubRepoTrees'[sha].fetchedAt >= githubRepoTrees[sha].fetchedAt
             /\ chromaSyncInvocations[sha].exists =>
                   chromaSyncInvocations'[sha].fetchedAt >=
                       chromaSyncInvocations[sha].fetchedAt]_vars

\* A row inserted after the clock moved was written back by a later fetch.
C9_Witness ==
    \E p \in Procs :
        /\ procs[p].op \in TtlOps /\ procs[p].outcome = "ok"
        /\ FetchedAt(procs[p].op, procs[p].key) = MaxClock
        /\ \E q \in Procs : q # p /\ procs[q].outcome = "ok"

\* C10: when the external fetch or create call of a refresh throws, the
\* transaction aborts: every row is as it was before the attempt, the row
\* lock is released, and the call rejects.
C10_AbortOnFetchFailure ==
    [][\A p \in Procs :
          (procs[p].pc = "fetch" /\ procs'[p].outcome = "throw") =>
              /\ dbVars' = dbVars
              /\ nextUuid' = nextUuid
              /\ lock'[RowOf(procs[p].op, procs[p].key)] = 0
              /\ procs'[p].pc = "threw"]_vars

\* A fetch threw on a row that held a fetched value, and the value is there.
C10_Witness ==
    \E p \in Procs :
        /\ procs[p].pc = "threw" /\ procs[p].outcome = "throw"
        /\ procs[p].op = "refreshRepo"
        /\ githubRepo.available = "true" /\ githubRepoDetails
        /\ lock[RepoRow] = 0

\* The where clause of the claim statement of call o on key k with the
\* arguments (t, f) and, for refreshInvocation, the source uuid u it read.
WhereFor(o, k, t, f, u) ==
    CASE o = "refreshRepo" -> refreshRepoWhere(t, f)
      [] o = "refreshCommit" -> refreshCommitWhere(t, f)
      [] o = "refreshTree" -> refreshTreeWhere(k, t, f)
      [] o = "refreshSource" -> refreshSourceWhere
      [] o = "refreshInvocation" -> refreshInvocationWhere(u, k)
      [] OTHER -> refreshInvocationStatusWhere(k, t, f)

WhereOf(p) ==
    WhereFor(procs[p].op, procs[p].key, procs[p].ttl, procs[p].force,
             procs[p].snap.sourceUuid)

\* C11: after a refresh attempt aborts because its external call failed, the
\* row lock is released and the row is still eligible for the same call, and
\* a call whose claim statement finds the row eligible and unlocked wins the
\* claim and issues the external call: no row stays unrefreshable.
C11_NoPoisonedLock ==
    [][\A p \in Procs :
          /\ (procs[p].pc = "fetch" /\ procs'[p].outcome = "throw") =>
                /\ lock'[RowOf(procs[p].op, procs[p].key)] = 0
                /\ \A o \in Ops, k \in Shas \cup {Null}, t \in TTLs,
                      f \in BOOLEAN, u \in 0..nextUuid :
                       ( /\ o = procs[p].op /\ k = procs[p].key
                         /\ t = procs[p].ttl /\ f = procs[p].force
                         /\ u = procs[p].snap.sourceUuid ) =>
                           WhereFor(o, k, t, f, u)'
          /\ ( /\ procs[p].pc = "claim" /\ procs'[p].pc # "claim"
               /\ lock[RowOf(procs[p].op, procs[p].key)] = 0
               /\ WhereOf(p) ) => procs'[p].pc = "fetch"]_vars

\* A caller's external call threw, and a later caller of the same function
\* on the same key holds the lock with its external call in flight.
C11_Witness ==
    \E p, q \in Procs :
        /\ p # q
        /\ procs[p].pc = "threw" /\ procs[p].outcome = "throw"
        /\ procs[q].pc = "fetch"
        /\ procs[q].op = procs[p].op /\ procs[q].key = procs[p].key
        /\ procs[q].ttl = procs[p].ttl /\ procs[q].force = procs[p].force
        /\ lock[RowOf(procs[q].op, procs[q].key)] = q

\* The snapshot a handler that is about to answer formats its response from:
\* the one it takes in this step, or the one it took before it awaited
\* refreshInvocationStatus.
SnapshotOf(p) ==
    IF procs[p].pc = "snapshot" \/ (procs[p].pc = "done" /\ procs[p].req = "repo")
    THEN getCurrentState
    ELSE procs[p].state

\* The handler p answers 200 in this step.
Answers(p) ==
    /\ procs[p].pc # "responded"
    /\ procs'[p].pc = "responded"
    /\ procs'[p].resp.code = 200

\* C12: the sync_status of a status response is processing when the
\* repository state row is missing or its latestProcessedCommitSha is null,
\* up_to_date when latestCommitSha equals latestProcessedCommitSha, and
\* out_of_date otherwise, whatever the two pointers of the row read are.
C12_ReadinessDerivation ==
    [][\A p \in Procs :
          Answers(p) =>
              LET row == SnapshotOf(p).state
                  status == procs'[p].resp.sync_status
              IN /\ status \in {"processing", "up_to_date", "out_of_date"}
                 /\ status = "processing" <=>
                       (~row.exists \/ row.latestProcessedCommitSha = Null)
                 /\ status = "up_to_date" <=>
                       /\ row.exists
                       /\ row.latestProcessedCommitSha # Null
                       /\ row.latestCommitSha = row.latestProcessedCommitSha]_vars

\* A request was answered out_of_date: the branch head moved after a commit
\* was processed.
C12_Witness ==
    \E p \in Procs :
        /\ procs[p].pc = "responded"
        /\ procs[p].resp.code = 200
        /\ procs[p].resp.sync_status = "out_of_date"
        /\ githubRepoState.latestProcessedCommitSha # Null
        /\ githubRepoState.latestCommitSha # githubRepoState.latestProcessedCommitSha

\* The handler p goes past its repository checks in this step: it has the
\* snapshot it decides on and either answers or starts its refreshes.
Routes(p) ==
    \/ /\ procs[p].pc = "snapshot"
       /\ procs'[p].pc # "snapshot"
       /\ procs'[p].op # "refreshRepo"
    \/ /\ procs[p].pc = "done" /\ procs[p].req = "repo"
       /\ procs'[p] # procs[p]

\* C13: a status request that reads the repository row as unavailable
\* (available = false) answers not-found and starts no refresh of the commit,
\* the tree, the source, the invocation or the invocation status.
C13_UnavailableNoRefresh ==
    [][\A p \in Procs :
          (Routes(p) /\ SnapshotOf(p).repo.available = "false") =>
              /\ procs'[p].pc = "responded"
              /\ procs'[p].resp = [code |-> 404]
              /\ tasks' = tasks
              /\ dbVars' = dbVars
              /\ \A q \in Procs : q # p => procs'[q] = procs[q]]_vars

\* A request on a repository stored as unavailable was answered 404 and
\* nothing but the repository row exists.
C13_Witness ==
    \E p \in Procs :
        /\ procs[p].pc = "responded"
        /\ procs[p].resp.code = 404
        /\ githubRepo.available = "false"
        /\ githubRepo.fetchedAt < clock
        /\ tasks = {}
        /\ ~githubRepoState.exists /\ ~chromaSyncSources.exists

\* The first status call for a repository never seen before: the handler
\* awaited refreshRepo, and its second snapshot has the repository, found
\* available, and no other row.
ColdStartCall(p) ==
    /\ Routes(p)
    /\ procs[p].req = "repo"
    /\ SnapshotOf(p).repo.available = "true"
    /\ ~SnapshotOf(p).state.exists
    /\ ~SnapshotOf(p).source.exists

\* C14, as stated: the first status call for a repository never seen before
\* issues the repository fetch, the commit fetch, the tree fetch, the source
\* creation and the invocation creation, and answers processing.
C14_ColdStartAllFive ==
    [][\A p \in Procs :
          ColdStartCall(p) =>
              /\ procs[p].outcome = "ok"
              /\ procs'[p].resp.code = 200
              /\ procs'[p].resp.sync_status = "processing"
              /\ \E sha \in Shas :
                    {<<"refreshCommit", Null>>, <<"refreshTree", sha>>,
                     <<"refreshSource", Null>>, <<"refreshInvocation", sha>>}
                        \subseteq tasks']_vars

\* C14: the first status call for a repository never seen before waits for
\* the repository fetch, which it issues, starts the commit fetch and the
\* source creation and nothing else, and answers processing; a status call
\* starts the tree fetch or the invocation creation only when its snapshot
\* has the latest commit (and, for the invocation, the source row).
C14_ColdStart ==
    [][\A p \in Procs :
          /\ ColdStartCall(p) =>
                /\ procs[p].outcome = "ok"
                /\ procs'[p].pc = "responded"
                /\ procs'[p].resp.code = 200
                /\ procs'[p].resp.sync_status = "processing"
                /\ tasks' = tasks \cup {<<"refreshCommit", Null>>,
                                        <<"refreshSource", Null>>}
          /\ Routes(p) =>
                \A task \in tasks' \ tasks :
                    /\ task[1] \in {"refreshTree", "refreshInvocation"} =>
                          task[2] = SnapshotOf(p).latestCommit /\ task[2] # Null
                    /\ task[1] = "refreshInvocation" =>
                          SnapshotOf(p).source.exists]_vars

\* The first call was answered processing with the commit fetch and the
\* source creation started and no commit known yet.
C14_Witness ==
    \E p \in Procs :
        /\ procs[p].pc = "responded"
        /\ procs[p].resp.code = 200
        /\ procs[p].resp.sync_status = "processing"
        /\ tasks = {<<"refreshCommit", Null>>, <<"refreshSource", Null>>}
        /\ githubRepo.available = "true"
        /\ ~githubRepoState.exists /\ ~chromaSyncSources.exists
        /\ githubRepoCommit = {}
        /\ stage = "empty"

\* The steady state of a snapshot: the repository is available, the latest
\* commit is the latest processed commit and has a completed invocation, its
\* tree and the source are stored, and the repository, state and invocation
\* rows are within their TTLs.
Steady(state) ==
    /\ state.repo.available = "true"
    /\ clock - state.repo.fetchedAt <= ONE_MONTH_MS
    /\ state.state.exists
    /\ state.state.latestCommitSha # Null
    /\ state.state.latestCommitSha = state.state.latestProcessedCommitSha
    /\ clock - state.state.fetchedAt <= ONE_DAY_MS
    /\ state.latestCommit = state.state.latestCommitSha
    /\ state.tree.exists /\ state.tree.tree # Null
    /\ state.source.exists /\ state.source.uuid # 0
    /\ state.invocation.exists /\ state.invocation.status = "completed"

\* C15: a status call that reads the steady state answers up_to_date and
\* issues no external call: it awaits no refresh, starts none, and writes
\* nothing.
C15_SteadyState ==
    [][\A p \in Procs :
          ( /\ procs[p].pc = "snapshot" /\ procs'[p].pc # "snapshot"
            /\ Steady(getCurrentState) ) =>
              /\ procs'[p].pc = "responded"
              /\ procs'[p].resp.code = 200
              /\ procs'[p].resp.sync_status = "up_to_date"
              /\ tasks' = tasks
              /\ dbVars' = dbVars
              /\ lock' = lock]_vars

\* A request on the steady state was answered up_to_date while nothing else
\* was running or waiting to run.
C15_Witness ==
    \E p \in Procs :
        /\ procs[p].pc = "responded"
        /\ procs[p].resp.code = 200
        /\ procs[p].resp.sync_status = "up_to_date"
        /\ Steady(getCurrentState)
        /\ tasks = {}
        /\ \A q \in Procs : q # p => procs[q].pc = "idle"

\* The callers whose createInvocation call for commit sha is in flight.
Creating(sha) ==
    {p \in Procs : At(p, "fetch", "refreshInvocation") /\ procs[p].key = sha}

C17_OneRequestPerforms ==
    \A p, q \in Procs :
        ( /\ p # q
          /\ stage = "empty"
          /\ procs[p].op \in Ops
          /\ procs[q].op = procs[p].op /\ procs[q].key = procs[p].key
          /\ procs[p].outcome \in {"ok", "absent"} ) =>
            /\ procs[q].pc # "fetch"
            /\ procs[q].outcome \notin {"ok", "absent"}

\* C18: when getRepository answers not-found or inaccessible the repository
\* row is stored with available = false and fetchedAt = now, and a
\* non-forced refreshRepo call issues getRepository on a row stored as
\* unavailable only when its TTL has elapsed (now - fetchedAt > ttl).
C18_NegativeCachingRepo ==
    [][\A p \in Procs :
          procs[p].op = "refreshRepo" =>
              /\ (procs[p].pc = "fetch" /\ procs'[p].outcome = "absent") =>
                    /\ githubRepo'.exists
                    /\ githubRepo'.available = "false"
                    /\ githubRepo'.fetchedAt = clock
                    /\ lock'[RepoRow] = 0
              /\ ( /\ procs[p].pc = "claim" /\ procs'[p].pc = "fetch"
                   /\ githubRepo.available = "false"
                   /\ ~procs[p].force ) =>
                    clock - githubRepo.fetchedAt > procs[p].ttl]_vars

\* The repository was stored as unavailable, the clock moved, and a
\* non-forced call with a TTL that has not elapsed returned null without
\* calling getRepository.
C18_Witness ==
    \E p, q \in Procs :
        /\ p # q
        /\ procs[q].op = "refreshRepo" /\ procs[q].outcome = "absent"
        /\ procs[p].op = "refreshRepo" /\ procs[p].pc = "done"
        /\ ~procs[p].force /\ procs[p].ttl = LongTTL
        /\ procs[p].outcome = "none" /\ procs[p].ret = NoValue
        /\ githubRepo.available = "false"
        /\ githubRepo.fetchedAt < clock

\* C19: when getBranchCommit or getRepositoryTree answers null the absence
\* is cached: while a call of refreshCommit or refreshTree that was answered
\* null has not returned yet, no non-forced call of the same function on the
\* same key, whose TTL cannot have elapsed, has the external call in flight.
C19_NegativeCachingHeadAndTree ==
    \A p, q \in Procs :
        ( /\ p # q
          /\ procs[p].op \in {"refreshCommit", "refreshTree"}
          /\ procs[p].outcome = "absent"
          /\ procs[q].op = procs[p].op /\ procs[q].key = procs[p].key
          /\ ~procs[q].force /\ procs[q].ttl = LongTTL ) =>
            procs[q].pc # "fetch"

\* C20: for a repository stored as available, a failure of an external call
\* made by a refresh that a status request triggered (commit, tree, source,
\* invocation creation, invocation status) never makes the response an error:
\* a request that went past its repository checks answers 200.
C20_FailureContainment ==
    [][\A p \in Procs :
          ( /\ procs'[p].pc = "responded"
            /\ \/ Routes(p) /\ SnapshotOf(p).repo.available = "true"
               \/ /\ procs[p].req = "status"
                  /\ procs[p].state.repo.available = "true" ) =>
              procs'[p].resp.code = 200]_vars

\* C21: a status request awaits an external call only on the first-ever
\* fetch of a repository: whenever the handler of a request is waiting for an
\* external call in flight, the repository row was never fetched.
C21_AwaitOnlyFirstFetch ==
    \A p \in Procs :
        (procs[p].req # "none" /\ procs[p].pc = "fetch") =>
            githubRepo.available = Null

\* C22: a repository details row exists only if the repository row is
\* stored as available, also after a re-fetch in which a repository that was
\* available is reported not found or inaccessible.
C22_DetailsOnlyWhenAvailable ==
    githubRepoDetails => (githubRepo.exists /\ githubRepo.available = "true")

\* C23: the external identifier (uuid) of a source row or of an invocation
\* row, once it is not null, never becomes null again, whatever refreshSource,
\* refreshInvocation and refreshInvocationStatus calls are made, failed and
\* aborted ones included.
C23_UuidNeverBackToNull ==
    [][/\ chromaSyncSources.uuid # 0 =>
             chromaSyncSources'.exists /\ chromaSyncSources'.uuid # 0
       /\ \A sha \in Shas :
             chromaSyncInvocations[sha].uuid # 0 =>
                 /\ chromaSyncInvocations'[sha].exists
                 /\ chromaSyncInvocations'[sha].uuid # 0]_vars

\* A refreshInvocation call went through its placeholder insert and its
\* claim on an invocation that has its identifier, and the identifier is
\* there.
C23_Witness ==
    \E p \in Procs :
        /\ procs[p].op = "refreshInvocation"
        /\ procs[p].pc \in {"current", "done"}
        /\ procs[p].outcome = "none"
        /\ stage = "invoked"
        /\ chromaSyncInvocations[procs[p].key].uuid # 0
        /\ chromaSyncSources.uuid # 0

\* The caller p of a registration function runs its placeholder insert in
\* this step.
Inserts(p) ==
    /\ procs[p].op \in RegistrationOps
    /\ procs[p].pc = "insert"
    /\ procs'[p].pc # "insert"

\* C24: the store has one source row per repository name and one invocation
\* row per (source, commit SHA) (the unique indexes), and under every
\* interleaving of concurrent placeholder inserts an insert that finds the
\* row of its key is a no-op for the caller, not an error, while an insert
\* that finds none adds the one placeholder and changes nothing else.
C24_NoDuplicateRows ==
    [][\A p \in Procs :
          Inserts(p) =>
              IF RowExists(RowOf(procs[p].op, procs[p].key))
              THEN /\ dbVars' = dbVars
                   /\ procs'[p].pc = "claim"
              ELSE \/ /\ ~githubRepo.exists
                      /\ procs'[p].pc = "threw"
                      /\ dbVars' = dbVars
                   \/ /\ procs'[p].pc = "claim"
                      /\ RowExists(RowOf(procs[p].op, procs[p].key))'
                      /\ AssignedUuid(procs[p].op, procs[p].key)' = 0
                      /\ <<githubRepo, githubRepoDetails, githubRepoState,
                           githubRepoCommit, githubRepoTrees>>' =
                         <<githubRepo, githubRepoDetails, githubRepoState,
                           githubRepoCommit, githubRepoTrees>>
                      /\ procs[p].op = "refreshSource" =>
                            chromaSyncInvocations' = chromaSyncInvocations
                      /\ procs[p].op = "refreshInvocation" =>
                            /\ chromaSyncSources' = chromaSyncSources
                            /\ \A sha \in Shas \ {procs[p].key} :
                                  chromaSyncInvocations'[sha] =
                                      chromaSyncInvocations[sha]]_vars

\* Two concurrent callers are both past their placeholder insert on the key
\* of a row that was not there when the run began, and the row is the one
\* placeholder.
C24_Witness ==
    \E p, q \in Procs :
        /\ p # q
        /\ procs[p].op = "refreshSource" /\ procs[q].op = "refreshSource"
        /\ procs[p].pc = "claim" /\ procs[q].pc = "claim"
        /\ stage = "repo"
        /\ chromaSyncSources.exists /\ chromaSyncSources.uuid = 0

StatusRank(status) ==
    CASE status = "pending" -> 0
      [] status = "processing" -> 1
      [] OTHER -> 2

NoContext == [type |-> "null"]

\* As getRepoContext, with the invocation joined on latestCommitSha.
getRepoContextLatest ==
    LET ref == githubRepoState.latestCommitSha
        joined == /\ githubRepoState.exists
                  /\ githubRepoDetails
                  /\ ref # Null
                  /\ chromaSyncInvocations[ref].exists
                  /\ ref \in githubRepoCommit
    IN IF ~joined THEN NoContext
       ELSE IF chromaSyncInvocations[ref].status # "completed" THEN NoContext
       ELSE [type |-> "context",
             collectionName |-> chromaSyncInvocations[ref].targetCollectionName]

\* One SELECT: the state row joined with the details row, with the invocation
\* and the commit whose sha is latestProcessedCommitSha (a null sha joins
\* nothing), and with the tree when there is one.
getRepoContext ==
    LET ref == githubRepoState.latestProcessedCommitSha
        joined == /\ githubRepoState.exists
                  /\ githubRepoDetails
                  /\ ref # Null
                  /\ chromaSyncInvocations[ref].exists
                  /\ ref \in githubRepoCommit
    IN IF ~joined THEN NoContext
       ELSE IF githubRepoState.latestCommitSha # Null /\ ref = Null THEN NoContext
       ELSE IF chromaSyncInvocations[ref].status # "completed" THEN NoContext
       ELSE [type |-> "context",
             collectionName |-> chromaSyncInvocations[ref].targetCollectionName]

\* The invocation rows of other repositories.  The handlers of this
\* repository never write them; in the scenario "fork" a fork of the
\* repository, registered as a source of its own, has a completed invocation
\* for the same commit abc123.
OtherInvocations(ref) ==
    IF stage = "fork" /\ ref = "abc123"
    THEN {[exists |-> TRUE, sourceUuid |-> -1, targetCollectionName |-> -1,
           uuid |-> -2, status |-> "completed", fetchedAt |-> 0]}
    ELSE {}

\* The join of getRepoContext matches invocations on refIdentifier alone and
\* takes one row (limit 1, no order): any row with that ref, of any source.
getRepoContextRows ==
    LET ref == githubRepoState.latestProcessedCommitSha
        others == IF /\ githubRepoState.exists
                     /\ githubRepoDetails
                     /\ ref # Null
                     /\ ref \in githubRepoCommit
                  THEN {[type |-> "context",
                         collectionName |-> i.targetCollectionName] :
                            i \in {o \in OtherInvocations(ref) : o.status = "completed"}}
                       \cup (IF \E o \in OtherInvocations(ref) : o.status # "completed"
                             THEN {NoContext} ELSE {})
                  ELSE {}
        own == /\ githubRepoState.exists
               /\ ref # Null
               /\ chromaSyncInvocations[ref].exists
    IN IF own \/ others = {} THEN {getRepoContext} \cup others ELSE others

\* createSearchTool, createCatTool, createGrepTool: each tool is bound to the
\* collection it is created with.
ChatTools(collectionName) ==
    {<<"search", collectionName>>, <<"cat", collectionName>>, <<"grep", collectionName>>}

\* POST .../chat: a body that does not parse is answered 500 by the catch
\* block; without a context the answer is 400 and no tool is created;
\* otherwise the text stream is started with the three tools.
ChatPost(p, body) ==
    /\ procs[p].pc = "idle"
    /\ \E context \in getRepoContextRows :
          procs' = [procs EXCEPT ![p] =
             [Idle EXCEPT
                 !.pc = "responded", !.op = "POST",
                 !.resp = IF body = "malformed" THEN [code |-> 500, tools |-> {}]
                          ELSE IF context = NoContext
                          THEN [code |-> 400, tools |-> {}]
                          ELSE [code |-> 200,
                                tools |-> ChatTools(context.collectionName)]]]
    /\ UNCHANGED <<clock, dbVars, lock, remoteStatus, nextUuid, stage, tasks>>

\* The chat response is sent.
ChatSent(p) ==
    /\ At(p, "responded", "POST")
    /\ procs' = [procs EXCEPT ![p] = Idle]
    /\ UNCHANGED <<clock, dbVars, lock, remoteStatus, nextUuid, stage, tasks>>

\* The workload: chat requests arrive while status requests are served; the
\* caller that runs the calls nobody awaits serves them when it is free.
NextChat ==
    \/ NextStatus
    \/ \E body \in {"messages", "malformed"} : ChatPost(2, body)
    \/ ChatSent(2)

InitChat == InitProcs /\ (InitEmpty \/ InitRepo \/ InitInvoked \/ InitNewCommit)

SpecChat == InitChat /\ [][NextChat]_vars

ByHolder(row) ==
    \E p \in Procs : lock[row] = p /\ procs'[p] # procs[p]

\* C28: every step that changes a stored row, other than the insert of its
\* placeholder, is taken by the caller whose transaction holds the lock of
\* that row.
C28_MutationUnderLock ==
    [][/\ (githubRepo.exists /\ githubRepo' # githubRepo) => ByHolder(RepoRow)
       /\ (githubRepoState.exists /\ githubRepoState' # githubRepoState) =>
              ByHolder(StateRow)
       /\ (chromaSyncSources.exists /\ chromaSyncSources' # chromaSyncSources) =>
              ByHolder(SourceRow)
       /\ \A sha \in Shas :
             /\ (githubRepoTrees[sha].exists
                   /\ githubRepoTrees'[sha] # githubRepoTrees[sha]) =>
                    ByHolder(TreeRow(sha))
             /\ (chromaSyncInvocations[sha].exists
                   /\ chromaSyncInvocations'[sha] # chromaSyncInvocations[sha]) =>
                    ByHolder(InvRow(sha))]_vars

\* C29: a forced call whose claim finds the row locked by another refresh
\* takes no lock and makes no external call: its transaction returns null,
\* and the call then returns the value stored in the row, writing nothing.
C29_ForceRespectsLock ==
    [][\A p \in Procs :
          LET row == RowOf(procs[p].op, procs[p].key)
          IN /\ (/\ procs[p].pc = "claim" /\ procs[p].force
                 /\ lock[row] \notin {0, p}
                 /\ procs'[p] # procs[p]) =>
                    /\ procs'[p].pc = "current"
                    /\ procs'[p].outcome = "none"
                    /\ lock' = lock
             /\ (/\ procs[p].pc = "current" /\ procs[p].force
                 /\ procs[p].outcome = "none"
                 /\ procs'[p] # procs[p]) =>
                    /\ procs'[p].pc = "done"
                    /\ procs'[p].outcome = "none"
                    /\ procs'[p].ret = StoredValue(procs[p].op, procs[p].key)
                    /\ UNCHANGED dbVars]_vars

\* A forced call was turned away by the lock another forced call holds, and
\* waits to read the stored row.
C29_Witness ==
    \E p, q \in Procs :
        /\ p # q
        /\ procs[p].force /\ procs[p].pc = "current" /\ procs[p].outcome = "none"
        /\ procs[q].pc = "fetch"
        /\ lock[RowOf(procs[p].op, procs[p].key)] = q

\* C30: the placeholder insert at the start of a refresh call changes nothing
\* when the row already exists: every stored row keeps its payload,
\* availability, external identifier, status, target collection name and
\* fetchedAt, and the call goes on to its claim.
C30_PlaceholderKeepsRow ==
    [][\A p \in Procs :
          (/\ procs[p].pc = "insert"
           /\ RowExists(RowOf(procs[p].op, procs[p].key))
           /\ procs'[p] # procs[p]) =>
              /\ UNCHANGED <<dbVars, lock>>
              /\ procs'[p].pc = "claim"]_vars

\* A refreshTree call for abc123, whose tree was stored with its payload when
\* the run began, is past its placeholder insert and the payload is there.
C30_Witness ==
    \E p \in Procs :
        /\ procs[p].op = "refreshTree" /\ procs[p].key = "abc123"
        /\ procs[p].pc = "claim"
        /\ stage = "invoked"
        /\ githubRepoTrees["abc123"].tree = "entries"
        /\ githubRepoTrees["abc123"].fetchedAt = 0

\* C31: a status response with code 200 is formatted from the snapshot the
\* handler read before it started its refreshes: the snapshot is the store as
\* it was when the handler routed the request, and what the awaited status
\* refresh and the move of latestProcessedCommitSha wrote is not in the answer.
C31_ResponseFromSnapshot ==
    [][\A p \in Procs :
          /\ (/\ procs[p].pc = "snapshot" \/ (procs[p].pc = "done" /\ procs[p].req = "repo")
              /\ procs'[p].req = "status") =>
                 procs'[p].state = getCurrentState
          /\ (/\ procs[p].pc = "snapshot"
              /\ procs'[p].pc = "responded" /\ procs'[p].resp.code = 200) =>
                 procs'[p].resp = formatResponse(getCurrentState)
          /\ (/\ (procs[p].pc = "done" /\ procs[p].req = "status") \/ procs[p].pc = "advance"
              /\ procs'[p].pc = "responded" /\ procs'[p].resp.code = 200) =>
                 procs'[p].resp = formatResponse(procs[p].state)]_vars

\* A request moved latestProcessedCommitSha to the latest commit and still
\* answered "processing", from its snapshot.
C31_Witness ==
    \E p \in Procs :
        /\ procs[p].pc = "responded" /\ procs[p].op = "GET"
        /\ procs[p].resp.code = 200
        /\ procs[p].resp.sync_status = "processing"
        /\ githubRepoState.latestProcessedCommitSha # Null
        /\ githubRepoState.latestProcessedCommitSha = githubRepoState.latestCommitSha

\* C32: the collection name a caller hands to createInvocation is the
\* targetCollectionName stored in the invocation row it locked, also when the
\* row was inserted by another caller under a different name.
C32_CreateWithStoredName ==
    \A p \in Procs :
        (procs[p].op = "refreshInvocation" /\ procs[p].pc = "fetch") =>
            /\ lock[InvRow(procs[p].key)] = p
            /\ procs[p].snap.targetCollectionName =
                   chromaSyncInvocations[procs[p].key].targetCollectionName

\* A caller is about to call createInvocation for a row that another caller
\* inserted: the stored name is not the one this caller drew.
C32_Witness ==
    \E p \in Procs :
        /\ procs[p].op = "refreshInvocation" /\ procs[p].pc = "fetch"
        /\ chromaSyncInvocations[procs[p].key].targetCollectionName \in Procs \ {p}

\* ------------------------------------- the processed pointer, two requests

\* The store of InitInvoked with the head commit last fetched more than a day
\* before the run begins: the next request refreshes the head.
InitStaleHead ==
    /\ githubRepo = [exists |-> TRUE, available |-> "true", fetchedAt |-> 0]
    /\ githubRepoDetails = TRUE
    /\ githubRepoState = [exists |-> TRUE, latestCommitSha |-> "abc123",
                          latestProcessedCommitSha |-> Null,
                          fetchedAt |-> 0 - (ONE_DAY_MS + 1)]
    /\ githubRepoCommit = {"abc123"}
    /\ githubRepoTrees = [sha \in Shas |->
                             IF sha = "abc123"
                             THEN [exists |-> TRUE, tree |-> "entries", fetchedAt |-> 0]
                             ELSE NoTree]
    /\ chromaSyncSources = [exists |-> TRUE, uuid |-> 1]
    /\ chromaSyncInvocations =
           [sha \in Shas |->
               IF sha = "abc123"
               THEN [exists |-> TRUE, sourceUuid |-> 1, targetCollectionName |-> 0,
                     uuid |-> 2, status |-> "pending", fetchedAt |-> -1]
               ELSE NoInvocation]
    /\ remoteStatus = [sha \in Shas |-> IF sha = "abc123" THEN "pending" ELSE Null]
    /\ nextUuid = 3
    /\ stage = "stalehead"

\* The steps of the calls a request makes for a repository that is stored
\* with its source: head, tree, invocation and the invocation's status.
StepPointer(p) ==
    \/ RefreshCommitInsert(p)
    \/ RefreshCommitClaim(p)
    \/ \E fetched \in GetBranchCommitResults : RefreshCommitFetch(p, fetched)
    \/ RefreshCommitCurrent(p)
    \/ RefreshTreeInsert(p)
    \/ RefreshTreeClaim(p)
    \/ \E fetched \in GetRepositoryTreeResults : RefreshTreeFetch(p, fetched)
    \/ RefreshTreeCurrent(p)
    \/ RefreshInvocationCheck(p)
    \/ RefreshInvocationInsert(p)
    \/ RefreshInvocationClaim(p)
    \/ \E created \in CreateResults : RefreshInvocationFetch(p, created)
    \/ RefreshInvocationCurrent(p)
    \/ RefreshInvocationStatusCheck(p)
    \/ RefreshInvocationStatusClaim(p)
    \/ \E got \in GetInvocationStatusResults : RefreshInvocationStatusFetch(p, got)
    \/ RefreshInvocationStatusCurrent(p)

NextPointer ==
    \/ \E p \in Procs : GetConcurrent(p)
    \/ \E p \in Procs : GetSnapshot(p)
    \/ \E p \in Procs : GetCatch(p)
    \/ \E p \in Procs : GetAfterStatus(p)
    \/ \E p \in Procs : GetAdvance(p)
    \/ \E p \in Procs : Reap(p)
    \/ \E q \in Procs : \E task \in Tasks : TaskStartConcurrent(q, task)
    \/ \E p \in Procs : StepPointer(p)
    \/ Tick
    \/ \E sha \in Shas : RemoteAdvance(sha)

InitPointer == InitProcs /\ InitStaleHead

SpecPointer == InitPointer /\ [][NextPointer]_vars

\* C33: once latestProcessedCommitSha names the repository's latest commit,
\* no step of any status request moves it to another commit while that
\* commit is still the latest.
C33_NoPointerRegression ==
    [][(/\ githubRepoState.latestProcessedCommitSha # Null
        /\ githubRepoState.latestProcessedCommitSha = githubRepoState.latestCommitSha
        /\ githubRepoState'.latestCommitSha = githubRepoState.latestCommitSha) =>
           githubRepoState'.latestProcessedCommitSha
               = githubRepoState.latestProcessedCommitSha]_vars

\* C34: whenever latestProcessedCommitSha is set, so that a status response
\* reports up_to_date or out_of_date, a chat request is accepted: the
\* invocation stored for latestProcessedCommitSha is completed and
\* getRepoContext returns a context.
C34_StatusChatConsistency ==
    (githubRepoState.exists /\ githubRepoState.latestProcessedCommitSha # Null) =>
        /\ chromaSyncInvocations[githubRepoState.latestProcessedCommitSha].status
               = "completed"
        /\ getRepoContext # NoContext

\* ------------------------------------------- chat beside a fork's rows

\* The store of InitInvoked with the head commit just fetched, beside the
\* rows of a fork (OtherInvocations).
InitFork ==
    /\ githubRepo = [exists |-> TRUE, available |-> "true", fetchedAt |-> 0]
    /\ githubRepoDetails = TRUE
    /\ githubRepoState = [exists |-> TRUE, latestCommitSha |-> "abc123",
                          latestProcessedCommitSha |-> Null, fetchedAt |-> 0]
    /\ githubRepoCommit = {"abc123"}
    /\ githubRepoTrees = [sha \in Shas |->
                             IF sha = "abc123"
                             THEN [exists |-> TRUE, tree |-> "entries", fetchedAt |-> 0]
                             ELSE NoTree]
    /\ chromaSyncSources = [exists |-> TRUE, uuid |-> 1]
    /\ chromaSyncInvocations =
           [sha \in Shas |->
               IF sha = "abc123"
               THEN [exists |-> TRUE, sourceUuid |-> 1, targetCollectionName |-> 0,
                     uuid |-> 2, status |-> "pending", fetchedAt |-> -1]
               ELSE NoInvocation]
    /\ remoteStatus = [sha \in Shas |-> IF sha = "abc123" THEN "pending" ELSE Null]
    /\ nextUuid = 3
    /\ stage = "fork"

\* Status requests that find the invocation unfinished, and chat requests.
NextFork ==
    \/ \E p \in Procs : Get(p)
    \/ \E p \in Procs : GetSnapshot(p)
    \/ \E p \in Procs : GetCatch(p)
    \/ \E p \in Procs : GetAfterStatus(p)
    \/ \E p \in Procs : GetAdvance(p)
    \/ \E p \in Procs : Reap(p)
    \/ \E p \in Procs : RefreshInvocationStatusCheck(p)
    \/ \E p \in Procs : RefreshInvocationStatusClaim(p)
    \/ \E p \in Procs, got \in GetInvocationStatusResults :
          RefreshInvocationStatusFetch(p, got)
    \/ \E sha \in Shas : RemoteAdvance(sha)
    \/ Tick
    \/ \E body \in {"messages", "malformed"} : ChatPost(2, body)
    \/ ChatSent(2)

InitForked == InitProcs /\ InitFork

SpecFork == InitForked /\ [][NextFork]_vars

\* C35: the tools of a served chat request are bound to the collection of an
\* invocation of the repository's own source, also when another repository
\* has an invocation for the same commit.
C35_RepositoryIsolation ==
    \A p \in Procs :
        (procs[p].op = "POST" /\ procs[p].resp.code = 200) =>
            \E sha \in Shas :
                /\ chromaSyncInvocations[sha].exists
                /\ chromaSyncInvocations[sha].sourceUuid = chromaSyncSources.uuid
                /\ procs[p].resp.tools =
                       ChatTools(chromaSyncInvocations[sha].targetCollectionName)

\* C36: a refreshInvocation call goes past its check only with the identifier
\* that a committed createSource stored in the source row, so createInvocation
\* is called and an invocation row is inserted only then; every invocation
\* row references the stored identifier of the source.
C36_RegistrationOrdering ==
    /\ \A sha \in Shas :
          chromaSyncInvocations[sha].exists =>
              /\ chromaSyncSources.exists
              /\ chromaSyncSources.uuid # 0
              /\ chromaSyncInvocations[sha].sourceUuid = chromaSyncSources.uuid
    /\ \A p \in Procs :
          (procs[p].op = "refreshInvocation"
             /\ procs[p].pc \in {"insert", "claim", "fetch"}) =>
              /\ chromaSyncSources.uuid # 0
              /\ procs[p].snap.sourceUuid = chromaSyncSources.uuid

\* refreshInvocation was called while the source row is a placeholder
\* without identifier, and another caller is registering the source.
C36_Witness ==
    \E p, q \in Procs :
        /\ procs[p].op = "refreshInvocation" /\ procs[p].pc = "check"
        /\ chromaSyncSources.exists /\ chromaSyncSources.uuid = 0
        /\ procs[q].op = "refreshSource" /\ procs[q].pc = "fetch"

\* ------------------------------------------------------------- progress

\* The calls a request makes, with every external call answered: the branch
\* head is one of the commits, the tree has entries, createInvocation and
\* getInvocationStatus succeed.
StepProgress(p) ==
    \/ RefreshCommitInsert(p)
    \/ RefreshCommitClaim(p)
    \/ \E fetched \in Shas : RefreshCommitFetch(p, fetched)
    \/ RefreshCommitCurrent(p)
    \/ RefreshTreeInsert(p)
    \/ RefreshTreeClaim(p)
    \/ RefreshTreeFetch(p, "entries")
    \/ RefreshTreeCurrent(p)
    \/ RefreshInvocationCheck(p)
    \/ RefreshInvocationInsert(p)
    \/ RefreshInvocationClaim(p)
    \/ RefreshInvocationFetch(p, "created")
    \/ RefreshInvocationCurrent(p)
    \/ RefreshInvocationStatusCheck(p)
    \/ RefreshInvocationStatusClaim(p)
    \/ RefreshInvocationStatusFetch(p, "status")
    \/ RefreshInvocationStatusCurrent(p)

\* What one caller does next, as a handler or inside a call.
HandlerStep(p) ==
    \/ GetSnapshot(p)
    \/ GetAfterStatus(p)
    \/ GetAdvance(p)
    \/ Reap(p)
    \/ StepProgress(p)

Arrive == \E p \in Procs : GetConcurrent(p)

Begin == \E q \in Procs : \E task \in Tasks : TaskStartConcurrent(q, task)

\* The indexing service works on an invocation and completes it.
RemoteCompletes(sha) ==
    /\ RemoteAdvance(sha)
    /\ remoteStatus'[sha] \in {"processing", "{complete}"}

NextProgress ==
    \/ Arrive
    \/ Begin
    \/ \E p \in Procs : HandlerStep(p)
    \/ Tick
    \/ \E sha \in Shas : RemoteCompletes(sha)

\* Requests keep arriving, the calls started in the background begin, every
\* caller goes on (the event loop runs every continuation that can run), and
\* time passes.
FairProgress ==
    /\ WF_vars(Arrive)
    /\ WF_vars(Begin)
    /\ \A p \in Procs : WF_vars(HandlerStep(p))
    /\ WF_vars(Tick)

SpecProgress == InitPointer /\ [][NextProgress]_vars /\ FairProgress

UpToDateResponse ==
    \E p \in Procs :
        /\ procs[p].pc = "responded" /\ procs[p].op = "GET"
        /\ procs[p].resp.code = 200
        /\ procs[p].resp.sync_status = "up_to_date"

\* C37: for an available repository, with requests arriving for ever, every
\* external call answered and the callers scheduled fairly: if from some time
\* on the indexing service reports the invocation of the latest commit as
\* complete, some status response reports up_to_date.
C37_Progress ==
    (<>[](/\ githubRepoState.latestCommitSha # Null
          /\ remoteStatus[githubRepoState.latestCommitSha] = "{complete}"))
        => <>UpToDateResponse

====
